---- MODULE Spec2Model ----
(***************************************************************************)
(* A model of the incremental GLR parser runtime: the subtree pool, the    *)
(* tree selection rule, the graph-structured stack and the parser driver   *)
(* of src/runtime/parser.c.                                                *)
(*                                                                         *)
(* Lengths are modelled by their byte component (the inputs are single-    *)
(* line ASCII, so chars = bytes and rows = 0).                             *)
(***************************************************************************)
EXTENDS Integers, Sequences, FiniteSets, TLC

NULL == 0

Min(S) == CHOOSE x \in S : \A y \in S : x <= y
Max(S) == CHOOSE x \in S : \A y \in S : x >= y

\* A local of a function of the code is written as the single argument of a
\* function: Value([x \in {e} |-> body]) is body with x standing for the
\* value of e, which is computed once.
Value(f) == LET g == f IN g[CHOOSE x \in DOMAIN g : TRUE]

(***************************************************************************)
(* The state.  `parser` is the Parser struct (with the memory of its tree  *)
(* pool and of its stack); `input`, `old_tree` and `halt_on_error` are the *)
(* arguments of the running parser_parse call; `pc` is the position of     *)
(* the call; `parse` holds the locals of parser_parse (version, position,  *)
(* last_position, reusable_node) and `advance` those of parser__advance    *)
(* (state, lookahead, table_entry); `build` is the build the program was   *)
(* compiled with; `obs` records what the properties below observe of the   *)
(* calls made so far.                                                      *)
(***************************************************************************)
VARIABLES build, parser, input, old_tree, halt_on_error, pc, parse, advance, obs

vars == <<build, parser, input, old_tree, halt_on_error, pc, parse, advance, obs>>

call_vars == <<input, old_tree, halt_on_error>>

(***************************************************************************)
(* Bounds of the model.                                                    *)
(***************************************************************************)
MaxSlabs == 3

(***************************************************************************)
(* The subtree pool (parser.c, lines 1179-1264).                           *)
(*                                                                         *)
(* A bitmap is the set of its one-bits, a subset of 0..63.  A tree pointer *)
(* is slab * SLAB_SIZE + slot + 1, so that NULL = 0 is no tree.            *)
(***************************************************************************)
SLAB_SIZE == 64
INT_WIDTH == 32

FULL_BITMAP == 0 .. (SLAB_SIZE - 1)

\* The builds differ in what an int shift by 32 or more yields (it is
\* undefined in C): the shift count taken modulo the width, or zero.
Builds == {"wrap", "zero"}

\* The int value 1 << k, k < INT_WIDTH, converted to BITMAP_TYPE: bit 31 is
\* the sign bit of the int, which the conversion to 64 bits extends.
IntBit(k) == IF k < INT_WIDTH - 1 THEN {k} ELSE (INT_WIDTH - 1) .. (SLAB_SIZE - 1)

\* (BITMAP_TYPE)(1 << i), the shift done in int.
ShiftMask(i, b) ==
  IF i < INT_WIDTH THEN IntBit(i)
  ELSE IF b = "wrap" THEN IntBit(i % INT_WIDTH)
  ELSE {}

\* (BITMAP_TYPE)~(1 << index): the complement is taken in int; a negative
\* int sign-extends, a non-negative one (INT_MAX, for index 31) does not.
ClearMask(index, b) == FULL_BITMAP \ ShiftMask(index, b)

tree_pool_slab__is_full(bitmap) == bitmap = FULL_BITMAP

\* The first slot whose mask meets no one-bit of the bitmap; NULL slot = -1.
tree_pool_slab__allocate(bitmap, b) ==
  Value([free \in {{i \in 0 .. (SLAB_SIZE - 1) : bitmap \cap ShiftMask(i, b) = {}}} |->
      IF free = {}
      THEN [bitmap |-> bitmap, slot |-> -1]
      ELSE [bitmap |-> bitmap \cup ShiftMask(Min(free), b), slot |-> Min(free)]])

\* index = tree - self->trees of slab s (0-based).
SlabIndex(s, tree) == (tree - 1) - s * SLAB_SIZE

tree_pool_slab__owns(s, tree) ==
  SlabIndex(s, tree) >= 0 /\ SlabIndex(s, tree) < SLAB_SIZE

tree_pool_slab__free(bitmap, s, tree, b) ==
  bitmap \cap ClearMask(SlabIndex(s, tree), b)

ts_tree_pool__add_slab(pool) ==
  [slabs |-> Append(pool.slabs, {}),
   first_available_slab_index |-> Len(pool.slabs)]

ts_tree_pool_init == ts_tree_pool__add_slab([slabs |-> << >>, first_available_slab_index |-> 0])

\* A variant of ts_tree_pool_allocate that leaves first_available_slab_index
\* on a slab that has become full (used to test the property of C10).
ts_tree_pool_allocate_nofill(pool, b) ==
  LET fa == pool.first_available_slab_index
  IN  Value([r \in {tree_pool_slab__allocate(pool.slabs[fa + 1], b)} |->
      [pool |-> [pool EXCEPT !.slabs[fa + 1] = r.bitmap],
       tree |-> IF r.slot = -1 THEN NULL ELSE fa * SLAB_SIZE + r.slot + 1]])

\* Result: the pool after the call and the tree returned (NULL when the
\* slab had no free slot).
ts_tree_pool_allocate(pool, b) ==
  LET fa    == pool.first_available_slab_index
  IN  Value([r \in {tree_pool_slab__allocate(pool.slabs[fa + 1], b)} |->
  LET tree  == IF r.slot = -1 THEN NULL ELSE fa * SLAB_SIZE + r.slot + 1
      p1    == [pool EXCEPT !.slabs[fa + 1] = r.bitmap]
  IN  Value([later \in {{i \in (fa + 1) .. (Len(p1.slabs) - 1) :
                           ~tree_pool_slab__is_full(p1.slabs[i + 1])}} |->
      IF tree_pool_slab__is_full(r.bitmap)
      THEN IF later # {}
           THEN [pool |-> [p1 EXCEPT !.first_available_slab_index = Min(later)],
                 tree |-> tree]
           ELSE [pool |-> ts_tree_pool__add_slab(p1), tree |-> tree]
      ELSE [pool |-> p1, tree |-> tree]])])

\* The slabs are scanned from the last to the first; the first one that
\* owns the pointer has the bit cleared.
ts_tree_pool_free(pool, tree, b) ==
  LET owners == {i \in 0 .. (Len(pool.slabs) - 1) : tree_pool_slab__owns(i, tree)}
  IN  Value([i \in {Max(owners)} |->
  LET fa     == pool.first_available_slab_index
  IN  [slabs |-> [pool.slabs EXCEPT ![i + 1] = tree_pool_slab__free(@, i, tree, b)],
       first_available_slab_index |-> IF i < fa THEN i ELSE fa]])

\* ts_tree_pool_delete: the trees of every slab are freed and the array of
\* the slabs is deleted; first_available_slab_index is left as it is.
ts_tree_pool_delete(pool) == [pool EXCEPT !.slabs = << >>]

(***************************************************************************)
(* Subtrees (runtime/tree.h, runtime/tree.c).  P is the parser struct; its  *)
(* field `trees` is the memory of the pool's slots: it maps the pointer of  *)
(* every allocated slot to the Tree stored there.                           *)
(***************************************************************************)
ts_builtin_sym_end == 0
ts_builtin_sym_error == 65535
TS_TREE_STATE_NONE == 65535

ERROR_STATE == 0
ERROR_COST_PER_RECOVERY == 500
ERROR_COST_PER_SKIPPED_TREE == 100
ERROR_COST_PER_SKIPPED_LINE == 30
ERROR_COST_PER_SKIPPED_CHAR == 1

\* A zeroed Tree struct.
TreeZero ==
  [symbol |-> 0, parse_state |-> 0, padding |-> 0, size |-> 0, bytes_scanned |-> 0,
   children |-> << >>, visible_child_count |-> 0, named_child_count |-> 0,
   alias_sequence_id |-> 0, error_cost |-> 0, dynamic_precedence |-> 0,
   first_leaf |-> [symbol |-> 0, lex_mode |-> 0, external_lex_state |-> 0],
   ref_count |-> 0, visible |-> FALSE, named |-> FALSE, extra |-> FALSE,
   fragile_left |-> FALSE, fragile_right |-> FALSE, has_changes |-> FALSE,
   has_external_tokens |-> FALSE, external_token_state |-> << >>,
   lookahead_char |-> 0,
   context |-> [parent |-> NULL, index |-> 0, offset |-> 0]]

ts_tree_total_bytes(t) == t.padding + t.size

\* unsigned and uint32_t are 32 bits wide, the integers here are 32 bits
\* signed: an unsigned value u is held as the integer of -2^31 .. 2^31 - 1
\* that is congruent to u modulo 2^32 (u itself when u < 2^31), so that +
\* and - wrap around as they do on an unsigned.  Unsigned32(hi, lo) is the
\* value hi * 2^16 + lo, and UnsignedLess is < on the values held.
Unsigned32(hi, lo) == (IF hi < 32768 THEN hi ELSE hi - 65536) * 65536 + lo

UnsignedLess(x, y) == IF (x < 0) = (y < 0) THEN x < y ELSE y < 0

RemoveKey(f, k) == [x \in DOMAIN f \ {k} |-> f[x]]

\* A fault is an assertion of the code that fails, or an access to a tree
\* that is not allocated.
Fault(P, what) == IF P.fault = "" THEN [P EXCEPT !.fault = what] ELSE P

\* Store `rec` in a slot the pool hands out.
TreeNew(P, rec) ==
  Value([r \in {ts_tree_pool_allocate(P.tree_pool, build)} |->
      [p |-> [P EXCEPT !.tree_pool = r.pool, !.trees = (r.tree :> rec) @@ P.trees],
       tree |-> r.tree]])

ts_tree_retain(P, t) ==
  IF t \notin DOMAIN P.trees THEN Fault(P, "retain of a freed tree")
  ELSE [P EXCEPT !.trees[t].ref_count = @ + 1]

\* ts_tree_release: the loop over pool->tree_stack.
RECURSIVE ReleaseLoop(_, _)
ReleaseLoop(P, stk) ==
  IF stk = << >> THEN P
  ELSE LET t    == stk[Len(stk)]
           rest == SubSeq(stk, 1, Len(stk) - 1)
       IN  IF t \notin DOMAIN P.trees \/ P.trees[t].ref_count = 0
           THEN Fault(P, "release of a freed tree")
           ELSE IF P.trees[t].ref_count = 1
           THEN ReleaseLoop([P EXCEPT !.trees = RemoveKey(@, t),
                                      !.tree_pool = ts_tree_pool_free(@, t, build)],
                            rest \o P.trees[t].children)
           ELSE ReleaseLoop([P EXCEPT !.trees[t].ref_count = @ - 1], rest)

ts_tree_release(P, t) == ReleaseLoop(P, <<t>>)

RECURSIVE ReleaseSeq(_, _)
ReleaseSeq(P, ts) ==
  IF ts = << >> THEN P ELSE ReleaseSeq(ts_tree_release(P, Head(ts)), Tail(ts))

RECURSIVE RetainSeq(_, _)
RetainSeq(P, ts) ==
  IF ts = << >> THEN P ELSE RetainSeq(ts_tree_retain(P, Head(ts)), Tail(ts))

\* ts_tree_array_delete: every tree of the array is released.
ts_tree_array_delete(P, ts) == ReleaseSeq(P, ts)

Reverse(s) == [i \in 1 .. Len(s) |-> s[Len(s) + 1 - i]]

\* The number of leading trees left when the trailing extras are dropped.
RECURSIVE EssentialCount(_, _, _)
EssentialCount(T, ts, n) ==
  IF n > 0 /\ T[ts[n]].extra THEN EssentialCount(T, ts, n - 1) ELSE n

(***************************************************************************)
(* The parse stack (runtime/stack.h, runtime/stack.c).  P.nodes maps the   *)
(* id of every live StackNode to the node; node 1 is the base node.        *)
(* P.heads is the array of StackHeads; version v is P.heads[v + 1].        *)
(***************************************************************************)
MAX_LINK_COUNT == 8
MAX_ITERATOR_COUNT == 64

BaseNode == 1

StackNodeZero == [state |-> 1, position |-> 0, links |-> << >>, error_cost |-> 0, depth |-> 0]

StackHeadZero ==
  [node |-> BaseNode, last_external_token |-> NULL, push_count |-> 0,
   is_halted |-> FALSE, has_summary |-> FALSE, summary |-> << >>]

ts_stack_version_count(P) == Len(P.heads)
ts_stack_top_state(P, v) == P.nodes[P.heads[v + 1].node].state
ts_stack_top_position(P, v) == P.nodes[P.heads[v + 1].node].position
ts_stack_push_count(P, v) == P.heads[v + 1].push_count
ts_stack_last_external_token(P, v) == P.heads[v + 1].last_external_token
ts_stack_depth_since_error(P, v) == P.nodes[P.heads[v + 1].node].depth
ts_stack_error_cost(P, v) == P.nodes[P.heads[v + 1].node].error_cost
ts_stack_is_halted(P, v) == P.heads[v + 1].is_halted
ts_stack_get_summary(P, v) == P.heads[v + 1].summary

ts_stack_halt(P, v) == [P EXCEPT !.heads[v + 1].is_halted = TRUE]

ts_stack_decrease_push_count(P, v, n) == [P EXCEPT !.heads[v + 1].push_count = @ - n]

RemoveAt(s, i) == SubSeq(s, 1, i - 1) \o SubSeq(s, i + 1, Len(s))
InsertAt(s, i, e) == SubSeq(s, 1, i - 1) \o <<e>> \o SubSeq(s, i, Len(s))

\* The nodes some head (or the stack itself, for the base node) still holds.
RECURSIVE ReachableNodes(_, _, _)
ReachableNodes(N, todo, seen) ==
  IF todo = {} THEN seen
  ELSE Value([c \in {[todo |-> UNION {{N[n].links[k].node : k \in 1 .. Len(N[n].links)} :
                                       n \in todo} \ (seen \cup todo),
                       seen |-> seen \cup todo]} |->
           ReachableNodes(N, c.todo, c.seen)])

RECURSIVE ReleaseLinks(_, _)
ReleaseLinks(P, links) ==
  IF links = << >> THEN P
  ELSE ReleaseLinks(IF Head(links).tree = NULL THEN P ELSE ts_tree_release(P, Head(links).tree),
                    Tail(links))

\* stack_node_release: a node that nothing refers to any more gives up the
\* trees of its links and is freed.
FreeNode(P, n) ==
  [ReleaseLinks(P, P.nodes[n].links) EXCEPT !.nodes = RemoveKey(@, n)]

\* c is the parser struct and the nodes still to free.
RECURSIVE FreeNodes(_)
FreeNodes(c) ==
  IF c.dead = {} THEN c.p
  ELSE FreeNodes([p |-> FreeNode(c.p, Max(c.dead)), dead |-> c.dead \ {Max(c.dead)}])

stack_node_release(P) ==
  LET live == ReachableNodes(P.nodes, {P.heads[k].node : k \in 1 .. Len(P.heads)} \cup {BaseNode}, {})
  IN  FreeNodes([p |-> P, dead |-> DOMAIN P.nodes \ live])

\* The cost a link adds to the node it leads to.
LinkCost(P, previous_node, tree, state) ==
  IF tree = NULL THEN ERROR_COST_PER_RECOVERY
  ELSE LET t == P.trees[tree]
       IN  t.error_cost +
           (IF state = ERROR_STATE /\ ~t.extra
            THEN ERROR_COST_PER_SKIPPED_TREE *
                   (IF t.visible \/ Len(t.children) = 0 THEN 1 ELSE t.visible_child_count) +
                 ERROR_COST_PER_SKIPPED_CHAR * t.size +
                 (IF P.nodes[previous_node].links # << >> /\
                     P.nodes[previous_node].links[1].tree # NULL
                  THEN ERROR_COST_PER_SKIPPED_CHAR * t.padding ELSE 0)
            ELSE 0)

stack_node_new(P, previous_node, tree, is_pending, state) ==
  LET prev == P.nodes[previous_node]
      id   == Min((1 .. (Cardinality(DOMAIN P.nodes) + 1)) \ DOMAIN P.nodes)
  IN  Value([node \in {[state |-> state,
                        position |-> prev.position +
                                     (IF tree = NULL THEN 0 ELSE ts_tree_total_bytes(P.trees[tree])),
                        links |-> <<[node |-> previous_node, tree |-> tree, is_pending |-> is_pending]>>,
                        error_cost |-> prev.error_cost + LinkCost(P, previous_node, tree, state),
                        depth |-> IF tree = NULL THEN 0
                                  ELSE prev.depth + (IF P.trees[tree].extra THEN 0 ELSE 1)]} |->
  LET P1   == IF tree = NULL THEN P ELSE ts_tree_retain(P, tree)
  IN  [p |-> [P1 EXCEPT !.nodes = (id :> node) @@ @], node |-> id]])

ts_stack_push(P, v, tree, is_pending, state) ==
  Value([r \in {stack_node_new(P, P.heads[v + 1].node, tree, is_pending, state)} |->
      [r.p EXCEPT !.heads[v + 1].node = r.node,
                  !.heads[v + 1].push_count =
                     IF state = ERROR_STATE THEN 0
                     ELSE IF ~P.trees[tree].extra THEN @ + 1 ELSE @]])

\* The reference a stack head holds to its last external token.
TokenRetain(P, token) == IF token = NULL THEN P ELSE ts_tree_retain(P, token)
TokenRelease(P, token) == IF token = NULL THEN P ELSE ts_tree_release(P, token)

RECURSIVE TokensRelease(_, _, _)
TokensRelease(P, heads, i) ==
  IF i > Len(heads) THEN P
  ELSE Value([P1 \in {TokenRelease(P, heads[i].last_external_token)} |->
           TokensRelease(P1, heads, i + 1)])

ts_stack_set_last_external_token(P, v, token) ==
  Value([P1 \in {TokenRetain(P, token)} |->
  Value([P2 \in {TokenRelease(P1, P.heads[v + 1].last_external_token)} |->
      [P2 EXCEPT !.heads[v + 1].last_external_token = token]])])

ts_stack__add_version(P, original_version, node) ==
  TokenRetain(
    [P EXCEPT !.heads = Append(@, [StackHeadZero EXCEPT
         !.node = node,
         !.push_count = P.heads[original_version + 1].push_count,
         !.last_external_token = P.heads[original_version + 1].last_external_token])],
    P.heads[original_version + 1].last_external_token)

ts_stack_copy_version(P, v) ==
  TokenRetain(
    [P EXCEPT !.heads = Append(@, [P.heads[v + 1] EXCEPT !.has_summary = FALSE,
                                                         !.summary = << >>])],
    P.heads[v + 1].last_external_token)

ts_stack_remove_version(P, v) ==
  Value([P1 \in {TokenRelease(P, P.heads[v + 1].last_external_token)} |->
      stack_node_release([P1 EXCEPT !.heads = RemoveAt(@, v + 1)])])

ts_stack_renumber_version(P, v1, v2) ==
  IF v1 = v2 THEN P
  ELSE LET source == P.heads[v1 + 1]
           target == P.heads[v2 + 1]
           moved  == IF target.has_summary /\ ~source.has_summary
                     THEN [source EXCEPT !.has_summary = TRUE, !.summary = target.summary]
                     ELSE source
       IN  Value([P1 \in {TokenRelease(P, target.last_external_token)} |->
               stack_node_release([P1 EXCEPT !.heads = RemoveAt([@ EXCEPT ![v2 + 1] = moved],
                                                                 v1 + 1)])])

ts_stack_swap_versions(P, v1, v2) ==
  [P EXCEPT !.heads = [@ EXCEPT ![v1 + 1] = P.heads[v2 + 1], ![v2 + 1] = P.heads[v1 + 1]]]

ts_stack_clear(P) ==
  Value([P1 \in {TokensRelease(P, P.heads, 1)} |->
      stack_node_release([P1 EXCEPT !.heads = <<StackHeadZero>>])])

\* ts_stack_delete: every head and then the base node are released.
ts_stack_delete(P) ==
  Value([P1 \in {TokensRelease(P, P.heads, 1)} |->
      [stack_node_release([P1 EXCEPT !.heads = << >>]) EXCEPT !.nodes = << >>]])

\* The callbacks of stack__iter.  The payload is the goal of pop_count, the
\* found_error flag of pop_error and the session of record_summary.
PayloadZero == [goal |-> 0, found_error |-> FALSE, summary |-> << >>, max_depth |-> 0]

\* Does the summary, scanned from its end, hold (depth, state) already?
RECURSIVE SummaryHas(_, _, _, _)
SummaryHas(summary, i, depth, st) ==
  IF i = 0 \/ summary[i].depth < depth THEN FALSE
  ELSE IF summary[i].depth = depth /\ summary[i].state = st THEN TRUE
  ELSE SummaryHas(summary, i - 1, depth, st)

StackCallback(kind, pl, P, it) ==
  LET node == P.nodes[it.node]
      none == [pop |-> FALSE, stop |-> FALSE, pl |-> pl]
  IN  CASE kind = "pop_count" ->
             IF it.tree_count = pl.goal THEN [pop |-> TRUE, stop |-> TRUE, pl |-> pl] ELSE none
        [] kind = "pop_pending" ->
             IF it.tree_count >= 1
             THEN [pop |-> it.is_pending, stop |-> TRUE, pl |-> pl]
             ELSE none
        [] kind = "pop_error" ->
             IF Len(it.trees) > 0
             THEN IF ~pl.found_error /\ P.trees[it.trees[1]].symbol = ts_builtin_sym_error
                  THEN [pop |-> TRUE, stop |-> TRUE, pl |-> [pl EXCEPT !.found_error = TRUE]]
                  ELSE [pop |-> FALSE, stop |-> TRUE, pl |-> pl]
             ELSE none
        [] kind = "pop_all" ->
             [pop |-> node.links = << >>, stop |-> FALSE, pl |-> pl]
        [] kind = "summarize" ->
             IF it.tree_count > pl.max_depth THEN [pop |-> FALSE, stop |-> TRUE, pl |-> pl]
             ELSE IF SummaryHas(pl.summary, Len(pl.summary), it.tree_count, node.state) THEN none
             ELSE [pop |-> FALSE, stop |-> FALSE,
                   pl |-> [pl EXCEPT !.summary = Append(@, [position |-> node.position,
                                                            depth |-> it.tree_count,
                                                            state |-> node.state])]]

\* ts_stack__add_slice: a slice whose version's head is the node gets the
\* new slice put after it; otherwise the node becomes the head of a new
\* version.  c is the state of the running stack__iter.
RECURSIVE SliceOfNode(_, _, _, _)
SliceOfNode(P, slices, i, node) ==
  IF i = 0 THEN 0
  ELSE IF P.heads[slices[i].version + 1].node = node THEN i
  ELSE SliceOfNode(P, slices, i - 1, node)

ts_stack__add_slice(c, original_version, node, trees) ==
  Value([i \in {SliceOfNode(c.p, c.slices, Len(c.slices), node)} |->
      IF i > 0
      THEN [c EXCEPT !.slices = InsertAt(@, i + 1, [trees |-> trees, version |-> c.slices[i].version])]
      ELSE [c EXCEPT !.p = ts_stack__add_version(@, original_version, node),
                     !.slices = Append(@, [trees |-> trees, version |-> Len(c.p.heads)])]])

\* An iterator moved over a link.
IteratorFollow(P, it, link, include_trees) ==
  IF link.tree # NULL
  THEN [node |-> link.node,
        trees |-> IF include_trees THEN Append(it.trees, link.tree) ELSE it.trees,
        tree_count |-> IF P.trees[link.tree].extra THEN it.tree_count ELSE it.tree_count + 1,
        is_pending |-> IF ~P.trees[link.tree].extra /\ ~link.is_pending THEN FALSE ELSE it.is_pending]
  ELSE [node |-> link.node, trees |-> it.trees,
        tree_count |-> it.tree_count + 1, is_pending |-> FALSE]

\* The links 1 .. link_count - 1 of the node start iterators of their own.
RECURSIVE IterFork(_, _, _, _, _)
IterFork(c, it, links, j, include_trees) ==
  IF j > Len(links) THEN c
  ELSE IF Len(c.iterators) >= MAX_ITERATOR_COUNT
  THEN IterFork(c, it, links, j + 1, include_trees)
  ELSE Value([P1 \in {RetainSeq(c.p, it.trees)} |->
       LET P2 == IF include_trees /\ links[j].tree # NULL
                 THEN ts_tree_retain(P1, links[j].tree) ELSE P1
       IN  IterFork([c EXCEPT !.p = P2,
                              !.iterators = Append(@, IteratorFollow(c.p, it, links[j], include_trees))],
                    it, links, j + 1, include_trees)])

\* One step of the for loop over the iterators: its body for the iterator
\* c.i (1-based) of the c.size that the loop started with, or the start of
\* the next for loop when this one is over.
IterBody(c, v, kind, include_trees) ==
  IF c.i > c.size THEN [c EXCEPT !.i = 1, !.size = Len(c.iterators)]
  ELSE
  LET i           == c.i
      it          == c.iterators[i]
      node        == c.p.nodes[it.node]
  IN  Value([a \in {StackCallback(kind, c.pl, c.p, it)} |->
      LET should_pop  == a.pop
          should_stop == a.stop \/ node.links = << >>
          c1          == [c EXCEPT !.pl = a.pl]
      IN  Value([c2 \in {IF should_pop
                         THEN ts_stack__add_slice(
                                IF should_stop THEN c1
                                ELSE [c1 EXCEPT !.p = RetainSeq(@, it.trees)],
                                v, it.node, Reverse(it.trees))
                         ELSE c1} |->
          IF should_stop
          THEN [c2 EXCEPT !.p = IF should_pop THEN @ ELSE ts_tree_array_delete(@, it.trees),
                          !.iterators = RemoveAt(@, i),
                          !.size = @ - 1]
          ELSE Value([c3 \in {IterFork(c2, it, node.links, 2, include_trees)} |->
               LET P4 == IF include_trees /\ node.links[1].tree # NULL
                         THEN ts_tree_retain(c3.p, node.links[1].tree) ELSE c3.p
               IN  [c3 EXCEPT !.p = P4,
                              !.iterators[i] = IteratorFollow(c3.p, it, node.links[1], include_trees),
                              !.i = @ + 1]])])])

\* The while loop of stack__iter: the for loops over the iterators, while
\* iterators remain.
RECURSIVE IterLoop(_, _, _, _)
IterLoop(c, v, kind, include_trees) ==
  IF c.iterators = << >> THEN c
  ELSE Value([c1 \in {IterBody(c, v, kind, include_trees)} |->
           IterLoop(c1, v, kind, include_trees)])

\* stack__iter: the parser struct after the call, the slices and the payload.
stack__iter(P, v, kind, pl, include_trees) ==
  Value([c \in {[p |-> P, slices |-> << >>, pl |-> pl,
                 iterators |-> <<[node |-> P.heads[v + 1].node, trees |-> << >>,
                                  tree_count |-> 0, is_pending |-> TRUE]>>,
                 i |-> 1, size |-> 1]} |->
      IterLoop(c, v, kind, include_trees)])

ts_stack_pop_count(P, v, count) ==
  stack__iter(P, v, "pop_count", [PayloadZero EXCEPT !.goal = count], TRUE)

ts_stack_pop_pending(P, v) ==
  Value([r \in {stack__iter(P, v, "pop_pending", PayloadZero, TRUE)} |->
      IF r.slices # << >>
      THEN [r EXCEPT !.p = ts_stack_renumber_version(@, r.slices[1].version, v),
                     !.slices[1].version = v]
      ELSE r])

HasErrorLink(P, v) ==
  \E k \in 1 .. Len(P.nodes[P.heads[v + 1].node].links) :
     LET t == P.nodes[P.heads[v + 1].node].links[k].tree
     IN  t # NULL /\ P.trees[t].symbol = ts_builtin_sym_error

ts_stack_pop_error(P, v) ==
  IF HasErrorLink(P, v)
  THEN stack__iter(P, v, "pop_error", PayloadZero, TRUE)
  ELSE [p |-> P, slices |-> << >>, pl |-> PayloadZero, iterators |-> << >>]

ts_stack_pop_all(P, v) == stack__iter(P, v, "pop_all", PayloadZero, TRUE)

ts_stack_record_summary(P, v, max_depth) ==
  Value([r \in {stack__iter(P, v, "summarize", [PayloadZero EXCEPT !.max_depth = max_depth], FALSE)} |->
      [r.p EXCEPT !.heads[v + 1].has_summary = TRUE, !.heads[v + 1].summary = r.pl.summary]])

\* The last leaf of the tree that an external scanner made (NULL if none).
RECURSIVE ts_tree_last_external_token(_, _)
ts_tree_last_external_token(T, tree) ==
  IF ~T[tree].has_external_tokens THEN NULL
  ELSE IF T[tree].children = << >> THEN tree
  ELSE LET with == {i \in 1 .. Len(T[tree].children) :
                      T[T[tree].children[i]].has_external_tokens}
       IN  IF with = {} THEN tree
           ELSE ts_tree_last_external_token(T, T[tree].children[Max(with)])

ts_tree_external_token_state_eq(P, t1, t2) ==
  t1 = t2 \/
  (t1 # NULL /\ t2 # NULL /\
   P.trees[t1].external_token_state = P.trees[t2].external_token_state)

stack__tree_is_equivalent(P, left, right) ==
  left = right \/
  (left # NULL /\ right # NULL /\
   LET l == P.trees[left]
       r == P.trees[right]
   IN  l.symbol = r.symbol /\
       ((l.error_cost # 0 /\ r.error_cost # 0) \/
        (l.children = << >> /\ r.children = << >> /\
         l.padding = r.padding /\ l.size = r.size /\ l.extra = r.extra)))

\* stack_node_add_link(self, link): the nodes after the call.
RECURSIVE stack_node_add_link(_, _, _)
RECURSIVE AddLinks(_, _, _, _)
RECURSIVE AddLinkScan(_, _, _, _)
AddLinks(P, self, links, j) ==
  IF j > Len(links) THEN P
  ELSE AddLinks(stack_node_add_link(P, self, links[j]), self, links, j + 1)

AddLinkScan(P, self, link, i) ==
  IF i > Len(P.nodes[self].links)
  THEN IF Len(P.nodes[self].links) < MAX_LINK_COUNT
       THEN [(IF link.tree = NULL THEN P ELSE ts_tree_retain(P, link.tree))
               EXCEPT !.nodes[self].links = Append(@, link)]
       ELSE P
  ELSE LET existing == P.nodes[self].links[i]
       IN  IF stack__tree_is_equivalent(P, existing.tree, link.tree)
           THEN IF existing.node = link.node THEN P
                ELSE IF P.nodes[existing.node].state = P.nodes[link.node].state /\
                        P.nodes[existing.node].position = P.nodes[link.node].position
                THEN AddLinks(P, existing.node, P.nodes[link.node].links, 1)
                ELSE AddLinkScan(P, self, link, i + 1)
           ELSE AddLinkScan(P, self, link, i + 1)

stack_node_add_link(P, self, link) == AddLinkScan(P, self, link, 1)

ts_stack_can_merge(P, v1, v2) ==
  LET n1 == P.nodes[P.heads[v1 + 1].node]
      n2 == P.nodes[P.heads[v2 + 1].node]
  IN  n1.state = n2.state /\ n1.position = n2.position /\ n1.depth = n2.depth /\
      ts_tree_external_token_state_eq(P, P.heads[v1 + 1].last_external_token,
                                      P.heads[v2 + 1].last_external_token)

ts_stack_force_merge(P, v1, v2) ==
  ts_stack_remove_version(
    AddLinks(P, P.heads[v1 + 1].node, P.nodes[P.heads[v2 + 1].node].links, 1), v2)

\* The parser struct after the call, and whether the versions were merged.
ts_stack_merge(P, v1, v2) ==
  IF ts_stack_can_merge(P, v1, v2)
  THEN [p |-> ts_stack_force_merge(P, v1, v2), merged |-> TRUE]
  ELSE [p |-> P, merged |-> FALSE]

(***************************************************************************)
(* The language (a TSLanguage value): the symbols                          *)
(*   end = 0, a = 1, b = 2, comment = 3 (an extra), P = 4, L = 5 (hidden), *)
(*   S = 6, A1 .. A7 = 7 .. 13                                             *)
(* and the grammar                                                         *)
(*   P -> L      L -> | L S                                                *)
(*   S -> A1 b | A2 b (dynamic precedence 1) | A3 b a (fragile) | A4 b b   *)
(*      | A5 b a a | A6 b a b | A7 b b a        Ai -> a                    *)
(* whose LR table keeps the seven-fold conflict between the Ai.            *)
(***************************************************************************)
sym_a == 1
sym_b == 2
sym_comment == 3
sym_P == 4
sym_L == 5
sym_S == 6

TOKEN_COUNT == 4
SYMBOL_COUNT == 14

Tokens == 0 .. (TOKEN_COUNT - 1)

ts_language_symbol_metadata(symbol) ==
  IF symbol = ts_builtin_sym_error THEN [visible |-> TRUE, named |-> TRUE]
  ELSE IF symbol = ts_builtin_sym_end THEN [visible |-> FALSE, named |-> TRUE]
  ELSE IF symbol \in {sym_a, sym_b} THEN [visible |-> TRUE, named |-> FALSE]
  ELSE IF symbol = sym_L THEN [visible |-> FALSE, named |-> FALSE]
  ELSE [visible |-> TRUE, named |-> TRUE]

(***************************************************************************)
(* Subtree constructors (runtime/tree.c).  Each yields the parser struct   *)
(* after the call (field p) and the new tree (field tree).                 *)
(***************************************************************************)
ts_tree_make_leaf(P, symbol, padding, size) ==
  TreeNew(P, [TreeZero EXCEPT
    !.ref_count = 1, !.symbol = symbol, !.size = size, !.padding = padding,
    !.visible = ts_language_symbol_metadata(symbol).visible,
    !.named = ts_language_symbol_metadata(symbol).named,
    !.first_leaf = [symbol |-> symbol, lex_mode |-> 0, external_lex_state |-> 0]])

ts_tree_make_error(P, size, padding, lookahead_char) ==
  Value([r \in {ts_tree_make_leaf(P, ts_builtin_sym_error, padding, size)} |->
      [r EXCEPT !.p.trees[r.tree].fragile_left = TRUE,
                !.p.trees[r.tree].fragile_right = TRUE,
                !.p.trees[r.tree].lookahead_char = lookahead_char]])

\* The loop of ts_tree_set_children over the children, from child i on.
RECURSIVE SetChildrenLoop(_, _, _, _)
SetChildrenLoop(T, self, children, i) ==
  IF i > Len(children) THEN self
  ELSE LET child == T[children[i]]
           s1 == IF i = 1
                 THEN [self EXCEPT !.padding = child.padding, !.size = child.size,
                                   !.bytes_scanned = child.bytes_scanned]
                 ELSE [self EXCEPT
                         !.bytes_scanned = IF ts_tree_total_bytes(self) + child.bytes_scanned > @
                                           THEN ts_tree_total_bytes(self) + child.bytes_scanned
                                           ELSE @,
                         !.size = @ + ts_tree_total_bytes(child)]
       IN  Value([s2 \in {[s1 EXCEPT
                             !.error_cost = @ + child.error_cost,
                             !.dynamic_precedence = @ + child.dynamic_precedence,
                             !.visible_child_count =
                                IF child.visible THEN @ + 1
                                ELSE IF child.children # << >> THEN @ + child.visible_child_count
                                ELSE @,
                             !.named_child_count =
                                IF child.visible THEN (IF child.named THEN @ + 1 ELSE @)
                                ELSE IF child.children # << >> THEN @ + child.named_child_count
                                ELSE @,
                             !.has_external_tokens = @ \/ child.has_external_tokens]} |->
       LET s3 == IF child.symbol = ts_builtin_sym_error
                 THEN [s2 EXCEPT !.fragile_left = TRUE, !.fragile_right = TRUE,
                                 !.parse_state = TS_TREE_STATE_NONE]
                 ELSE s2
       IN  SetChildrenLoop(T, s3, children, i + 1)])

\* The first leaf a node takes from its children: that of the first child
\* that is not an extra; a node whose children are all extras is its own
\* first leaf.
FirstLeafOf(T, symbol, children) ==
  LET essential == {i \in 1 .. Len(children) : ~T[children[i]].extra}
  IN  IF essential = {}
      THEN [symbol |-> symbol, lex_mode |-> 0, external_lex_state |-> 0]
      ELSE T[children[Min(essential)]].first_leaf

\* ts_tree_set_children on the Tree value `self`: the value after the call.
ts_tree_set_children(T, self, children) ==
  LET s0 == [self EXCEPT !.children = children, !.named_child_count = 0,
                         !.visible_child_count = 0, !.error_cost = 0,
                         !.has_external_tokens = FALSE, !.dynamic_precedence = 0]
  IN  Value([s1 \in {SetChildrenLoop(T, s0, children, 1)} |->
  Value([s2 \in {IF s1.symbol = ts_builtin_sym_error
                 THEN [s1 EXCEPT !.error_cost = @ + ERROR_COST_PER_SKIPPED_CHAR * s1.size +
                          ERROR_COST_PER_SKIPPED_TREE *
                            Cardinality({i \in 1 .. Len(children) : ~T[children[i]].extra})]
                 ELSE s1} |->
      IF children # << >>
      THEN [s2 EXCEPT !.first_leaf = FirstLeafOf(T, s2.symbol, children),
                      !.fragile_left = @ \/ T[children[1]].fragile_left,
                      !.fragile_right = @ \/ T[children[Len(children)]].fragile_right]
      ELSE s2])])

ts_tree_make_node(P, symbol, children, alias_sequence_id) ==
  Value([r \in {ts_tree_make_leaf(P, symbol, 0, 0)} |->
      [r EXCEPT !.p.trees[r.tree] =
         ts_tree_set_children(r.p.trees, [@ EXCEPT !.alias_sequence_id = alias_sequence_id], children)]])

\* The children of interior ERROR trees replace them in the array.
RECURSIVE SpliceErrors(_, _, _)
SpliceErrors(P, children, i) ==
  IF i > Len(children) THEN [p |-> P, children |-> children]
  ELSE LET child == P.trees[children[i]]
       IN  IF child.symbol = ts_builtin_sym_error /\ child.children # << >>
           THEN SpliceErrors(ts_tree_release(RetainSeq(P, child.children), children[i]),
                             SubSeq(children, 1, i - 1) \o child.children \o
                               SubSeq(children, i + 1, Len(children)),
                             i + Len(child.children))
           ELSE SpliceErrors(P, children, i + 1)

ts_tree_make_error_node(P, children) ==
  Value([sp \in {SpliceErrors(P, children, 1)} |->
  Value([r \in {ts_tree_make_node(sp.p, ts_builtin_sym_error, sp.children, 0)} |->
      [r EXCEPT !.p.trees[r.tree].fragile_left = TRUE,
                !.p.trees[r.tree].fragile_right = TRUE]])])

\* A shallow copy with one reference: the copy has the children of the
\* tree, and each of them is retained for it.
ts_tree_make_copy(P, tree) ==
  TreeNew(RetainSeq(P, P.trees[tree].children), [P.trees[tree] EXCEPT !.ref_count = 1])

\* ts_tree_assign_parents: the context of every descendant of the root.
RECURSIVE AssignParents(_, _)
RECURSIVE AssignChildren(_, _, _, _)
AssignChildren(T, tree, i, offset) ==
  IF i > Len(T[tree].children) THEN T
  ELSE LET c  == T[tree].children[i]
           T1 == [T EXCEPT ![c].context = [parent |-> tree, index |-> i - 1, offset |-> offset]]
       IN  AssignChildren(AssignParents(T1, c), tree, i + 1, offset + ts_tree_total_bytes(T[c]))

AssignParents(T, tree) == AssignChildren(T, tree, 1, 0)

ts_tree_assign_parents(P, tree) == [P EXCEPT !.trees = AssignParents(@, tree)]

RECURSIVE ts_tree_compare(_, _, _)
RECURSIVE CompareChildren(_, _, _, _)
CompareChildren(T, l, r, i) ==
  IF i > Len(T[l].children) THEN 0
  ELSE Value([c \in {ts_tree_compare(T, T[l].children[i], T[r].children[i])} |->
           IF c # 0 THEN c ELSE CompareChildren(T, l, r, i + 1)])

ts_tree_compare(T, l, r) ==
  IF T[l].symbol < T[r].symbol THEN -1
  ELSE IF T[r].symbol < T[l].symbol THEN 1
  ELSE IF Len(T[l].children) < Len(T[r].children) THEN -1
  ELSE IF Len(T[r].children) < Len(T[l].children) THEN 1
  ELSE CompareChildren(T, l, r, 1)

(***************************************************************************)
(* The parse table of the language (TSLanguage.parse_table, parse_actions, *)
(* lex_modes).  State 0 is ERROR_STATE, state 1 the start state.           *)
(***************************************************************************)
ActionZero ==
  [type |-> "", state |-> 0, extra |-> FALSE, symbol |-> 0, child_count |-> 0,
   dynamic_precedence |-> 0, alias_sequence_id |-> 0, fragile |-> FALSE]

Shift(st) == [ActionZero EXCEPT !.type = "Shift", !.state = st]
ShiftExtra == [ActionZero EXCEPT !.type = "Shift", !.extra = TRUE]
Reduce(symbol, count, prec, fragile) ==
  [ActionZero EXCEPT !.type = "Reduce", !.symbol = symbol, !.child_count = count,
                     !.dynamic_precedence = prec, !.fragile = fragile]
AcceptInput == [ActionZero EXCEPT !.type = "Accept"]
RecoverAction == [ActionZero EXCEPT !.type = "Recover"]

STATE_COUNT == 28

ParseActions ==
  <<0, 0>> :> <<RecoverAction>> @@
  <<0, 1>> :> <<RecoverAction>> @@
  <<0, 2>> :> <<RecoverAction>> @@
  <<0, 3>> :> <<RecoverAction>> @@
  <<1, 0>> :> <<Reduce(5, 0, 0, FALSE)>> @@
  <<1, 1>> :> <<Reduce(5, 0, 0, FALSE)>> @@
  <<1, 3>> :> <<ShiftExtra>> @@
  <<2, 0>> :> <<AcceptInput>> @@
  <<2, 3>> :> <<ShiftExtra>> @@
  <<3, 0>> :> <<Reduce(4, 1, 0, FALSE)>> @@
  <<3, 1>> :> <<Shift(4)>> @@
  <<3, 3>> :> <<ShiftExtra>> @@
  <<4, 2>> :> <<Reduce(7, 1, 0, FALSE), Reduce(8, 1, 0, FALSE), Reduce(9, 1, 0, FALSE), Reduce(10, 1, 0, FALSE), Reduce(11, 1, 0, FALSE), Reduce(12, 1, 0, FALSE), Reduce(13, 1, 0, FALSE)>> @@
  <<4, 3>> :> <<ShiftExtra>> @@
  <<5, 0>> :> <<Reduce(5, 2, 0, FALSE)>> @@
  <<5, 1>> :> <<Reduce(5, 2, 0, FALSE)>> @@
  <<5, 3>> :> <<ShiftExtra>> @@
  <<6, 2>> :> <<Shift(13)>> @@
  <<6, 3>> :> <<ShiftExtra>> @@
  <<7, 2>> :> <<Shift(14)>> @@
  <<7, 3>> :> <<ShiftExtra>> @@
  <<8, 2>> :> <<Shift(15)>> @@
  <<8, 3>> :> <<ShiftExtra>> @@
  <<9, 2>> :> <<Shift(16)>> @@
  <<9, 3>> :> <<ShiftExtra>> @@
  <<10, 2>> :> <<Shift(17)>> @@
  <<10, 3>> :> <<ShiftExtra>> @@
  <<11, 2>> :> <<Shift(18)>> @@
  <<11, 3>> :> <<ShiftExtra>> @@
  <<12, 2>> :> <<Shift(19)>> @@
  <<12, 3>> :> <<ShiftExtra>> @@
  <<13, 0>> :> <<Reduce(6, 2, 0, FALSE)>> @@
  <<13, 1>> :> <<Reduce(6, 2, 0, FALSE)>> @@
  <<13, 3>> :> <<ShiftExtra>> @@
  <<14, 0>> :> <<Reduce(6, 2, 1, FALSE)>> @@
  <<14, 1>> :> <<Reduce(6, 2, 1, FALSE)>> @@
  <<14, 3>> :> <<ShiftExtra>> @@
  <<15, 1>> :> <<Shift(20)>> @@
  <<15, 3>> :> <<ShiftExtra>> @@
  <<16, 2>> :> <<Shift(21)>> @@
  <<16, 3>> :> <<ShiftExtra>> @@
  <<17, 1>> :> <<Shift(22)>> @@
  <<17, 3>> :> <<ShiftExtra>> @@
  <<18, 1>> :> <<Shift(23)>> @@
  <<18, 3>> :> <<ShiftExtra>> @@
  <<19, 2>> :> <<Shift(24)>> @@
  <<19, 3>> :> <<ShiftExtra>> @@
  <<20, 0>> :> <<Reduce(6, 3, 0, TRUE)>> @@
  <<20, 1>> :> <<Reduce(6, 3, 0, TRUE)>> @@
  <<20, 3>> :> <<ShiftExtra>> @@
  <<21, 0>> :> <<Reduce(6, 3, 0, FALSE)>> @@
  <<21, 1>> :> <<Reduce(6, 3, 0, FALSE)>> @@
  <<21, 3>> :> <<ShiftExtra>> @@
  <<22, 1>> :> <<Shift(25)>> @@
  <<22, 3>> :> <<ShiftExtra>> @@
  <<23, 2>> :> <<Shift(26)>> @@
  <<23, 3>> :> <<ShiftExtra>> @@
  <<24, 1>> :> <<Shift(27)>> @@
  <<24, 3>> :> <<ShiftExtra>> @@
  <<25, 0>> :> <<Reduce(6, 4, 0, FALSE)>> @@
  <<25, 1>> :> <<Reduce(6, 4, 0, FALSE)>> @@
  <<25, 3>> :> <<ShiftExtra>> @@
  <<26, 0>> :> <<Reduce(6, 4, 0, FALSE)>> @@
  <<26, 1>> :> <<Reduce(6, 4, 0, FALSE)>> @@
  <<26, 3>> :> <<ShiftExtra>> @@
  <<27, 0>> :> <<Reduce(6, 4, 0, FALSE)>> @@
  <<27, 1>> :> <<Reduce(6, 4, 0, FALSE)>> @@
  <<27, 3>> :> <<ShiftExtra>>

GotoTable ==
  <<1, 4>> :> 2 @@
  <<1, 5>> :> 3 @@
  <<3, 6>> :> 5 @@
  <<3, 7>> :> 6 @@
  <<3, 8>> :> 7 @@
  <<3, 9>> :> 8 @@
  <<3, 10>> :> 9 @@
  <<3, 11>> :> 10 @@
  <<3, 12>> :> 11 @@
  <<3, 13>> :> 12

LexModes ==
  <<0, 1, 2, 1, 3, 1, 3, 3, 3, 3, 3, 3, 3, 1, 1, 4, 3, 4, 4, 3, 1, 1, 4, 3, 4, 1, 1, 1>>

LexStateTokens ==
  <<{0, 1, 2, 3}, {0, 1, 3}, {0, 3}, {2, 3}, {1, 3}, {0, 1, 2, 3}>>

(***************************************************************************)
(* The languages.  A language is data of the caller, handed to the parser  *)
(* as a pointer by parser_set_language; the parser reads its tables and    *)
(* checks nothing in them.  TheLanguage is the language of the tables      *)
(* above.  Every other language has these tables with the actions of one   *)
(* entry, that of a state and a token, replaced by one of OtherEntries;    *)
(* its pointer is the number LanguageOf gives for the three.  The symbols, *)
(* the goto table, the lex modes and the lexer are those of TheLanguage in *)
(* every language but PlainLanguage.                                       *)
(*                                                                         *)
(* PlainLanguage is the language of the grammar without the conflict,      *)
(*   P -> L      L -> | L S      S -> A1 b      A1 -> a                    *)
(* with a lexer of one lex state, PlainLexState, for every parse state but *)
(* ERROR_STATE: its tables are those above but for the entry of state 4    *)
(* and b, which has the one reduction to A1, and the lex modes.            *)
(***************************************************************************)
TheLanguage == 1

OtherEntries ==
  LET R1 == Reduce(7, 1, 0, FALSE)
      R2 == Reduce(8, 1, 0, FALSE)
      R3 == Reduce(sym_S, 1, 1, TRUE)
  IN  <<<<R1, R2>>, <<R1, R2, R3>>, <<R3>>,
        <<Shift(13), R1>>, <<R1, Shift(13), R2>>, <<R1, R2, Shift(6), R3, Shift(13)>>,
        <<ShiftExtra, R1>>, <<R2, R1, ShiftExtra, R3>>,
        <<R1, AcceptInput, R2>>, <<R1, R2, AcceptInput, Shift(13)>>,
        <<RecoverAction, R1>>, <<R1, R2, RecoverAction, R3>>,
        <<RecoverAction>>>>

\* The language with entry k of OtherEntries for state st and the token.
LanguageOf(k, st, symbol) ==
  TheLanguage + 1 + ((k - 1) * STATE_COUNT + st) * TOKEN_COUNT + symbol

LanguageEntry(language) ==
  OtherEntries[((language - TheLanguage - 1) \div (STATE_COUNT * TOKEN_COUNT)) + 1]

LanguageState(language) == ((language - TheLanguage - 1) \div TOKEN_COUNT) % STATE_COUNT

LanguageSymbol(language) == (language - TheLanguage - 1) % TOKEN_COUNT

PlainLanguage == LanguageOf(Len(OtherEntries) + 1, 0, 0)

PlainActions == <<4, 2>> :> <<Reduce(7, 1, 0, FALSE)>>

PlainLexState == Len(LexStateTokens) - 1

ts_language_actions(language, st, symbol) ==
  IF language = PlainLanguage /\ <<st, symbol>> \in DOMAIN PlainActions
  THEN PlainActions[<<st, symbol>>]
  ELSE IF language \notin {TheLanguage, PlainLanguage} /\
          st = LanguageState(language) /\ symbol = LanguageSymbol(language)
  THEN LanguageEntry(language)
  ELSE IF <<st, symbol>> \in DOMAIN ParseActions THEN ParseActions[<<st, symbol>>] ELSE << >>

\* self->language->lex_modes[state].lex_state
ts_language_lex_state(language, st) ==
  IF language = PlainLanguage /\ st # ERROR_STATE THEN PlainLexState ELSE LexModes[st + 1]

ts_language_table_entry(language, st, symbol) ==
  IF symbol = ts_builtin_sym_error
  THEN [actions |-> << >>, is_reusable |-> FALSE, depends_on_lookahead |-> FALSE]
  ELSE [actions |-> ts_language_actions(language, st, symbol),
        is_reusable |-> ts_language_actions(language, st, symbol) # << >> /\ st # ERROR_STATE,
        depends_on_lookahead |-> FALSE]

ts_language_next_state(language, st, symbol) ==
  IF symbol = ts_builtin_sym_error THEN 0
  ELSE IF symbol < TOKEN_COUNT
  THEN Value([actions \in {ts_language_actions(language, st, symbol)} |->
           IF actions # << >> /\ actions[Len(actions)].type \in {"Shift", "Recover"}
           THEN actions[Len(actions)].state
           ELSE 0])
  ELSE IF <<st, symbol>> \in DOMAIN GotoTable THEN GotoTable[<<st, symbol>>] ELSE 0

(***************************************************************************)
(* The input and the lexer (runtime/lexer.c and the language's lex_fn).    *)
(* An input is a sequence of characters; a position is the number of bytes *)
(* before it.                                                              *)
(***************************************************************************)
MaxLen == 3

CH_a == 1
CH_b == 2
CH_hash == 3
CH_space == 4
CH_other == 5
CH_x == 6
CH_y == 7

Chars == {CH_a, CH_b, CH_hash, CH_space, CH_other}

Inputs == UNION {[1 .. n -> Chars] : n \in 0 .. MaxLen}

\* The character the lexer looks at (0 at the end of the input).
LexerLookahead(inp, pos) == IF pos < Len(inp) THEN inp[pos + 1] ELSE 0

RECURSIVE SkipSpaces(_, _)
SkipSpaces(inp, pos) ==
  IF LexerLookahead(inp, pos) = CH_space THEN SkipSpaces(inp, pos + 1) ELSE pos

TokenOfChar(ch) ==
  IF ch = 0 THEN ts_builtin_sym_end
  ELSE IF ch = CH_a THEN sym_a
  ELSE IF ch = CH_b THEN sym_b
  ELSE IF ch = CH_hash THEN sym_comment
  ELSE -1

\* lex_fn in lex state lex_state, the lexer being at pos: white space is
\* skipped, then one character (or the end of the input) is a token if the
\* lex state knows it.
lex_fn(inp, lex_state, pos) ==
  Value([q \in {SkipSpaces(inp, pos)} |->
  Value([ch \in {LexerLookahead(inp, q)} |->
  Value([tok \in {TokenOfChar(ch)} |->
      IF tok \in LexStateTokens[lex_state + 1]
      THEN [ok |-> TRUE, result_symbol |-> tok, token_start |-> q,
            token_end |-> IF ch = 0 THEN q ELSE q + 1,
            current |-> IF ch = 0 THEN q ELSE q + 1]
      ELSE [ok |-> FALSE, result_symbol |-> 0, token_start |-> q, token_end |-> q, current |-> q]])])])

(***************************************************************************)
(* The external scanner of the language.  Its payload is a number, 0 after *)
(* create; serialize writes no byte for 0 and the number as one byte       *)
(* otherwise.  It makes two tokens: at CH_x the token 0, one character     *)
(* long, and at CH_y, if its payload is 0, the token 1 of no length; at    *)
(* CH_b it reads that character and the next one and finds no token.  A    *)
(* scan changes the payload whether it finds a token or not.  External     *)
(* tokens are enabled in the external lex state 1, which is that of        *)
(* ERROR_STATE and of state 4.                                             *)
(***************************************************************************)
ExternalLexStates == [st \in 0 .. (Len(LexModes) - 1) |-> IF st \in {ERROR_STATE, 4} THEN 1 ELSE 0]

ExternalSymbolMap == <<sym_a, sym_comment>>

\* NULL is the empty sequence here.
ts_language_enabled_external_tokens(external_lex_state) ==
  IF external_lex_state = 0 THEN << >> ELSE <<TRUE, TRUE>>

external_scanner_serialize(payload) == IF payload = 0 THEN << >> ELSE <<payload>>

external_scanner_deserialize(data) == IF data = << >> THEN 0 ELSE data[1]

external_scanner_scan(payload, inp, pos, valid) ==
  Value([ch \in {LexerLookahead(inp, pos)} |->
      IF ch = CH_x /\ valid[1]
      THEN [ok |-> TRUE, result_symbol |-> 0, token_start |-> pos, token_end |-> pos + 1,
            current |-> pos + 1, payload |-> (payload % 2) + 1]
      ELSE IF ch = CH_y /\ valid[2] /\ payload = 0
      THEN [ok |-> TRUE, result_symbol |-> 1, token_start |-> pos, token_end |-> pos,
            current |-> pos, payload |-> 2]
      ELSE IF ch = CH_b
      THEN [ok |-> FALSE, result_symbol |-> 0, token_start |-> pos, token_end |-> pos,
            current |-> IF pos + 2 <= Len(inp) THEN pos + 2 ELSE Len(inp), payload |-> payload]
      ELSE [ok |-> FALSE, result_symbol |-> 0, token_start |-> pos, token_end |-> pos,
            current |-> pos, payload |-> IF ch \in {CH_x, CH_y} THEN 3 ELSE payload]])

(***************************************************************************)
(* The parser (runtime/parser.c).  The operators below take the Parser     *)
(* struct P and yield the struct after the call, in a record with the      *)
(* other results where there are any.                                      *)
(***************************************************************************)
MAX_VERSION_COUNT == 6
MAX_SUMMARY_DEPTH == 16
MAX_COST_DIFFERENCE == 16 * ERROR_COST_PER_SKIPPED_TREE

STACK_VERSION_NONE == -1

ReusableNodeZero == [tree |-> NULL, byte_index |-> 0, last_external_token |-> NULL]

\* external_scanner.create of the language: the payload of a new scanner.
external_scanner_create == external_scanner_deserialize(<< >>)

\* The Parser struct after parser_init on zeroed memory: parser_init does
\* not write language and external_scanner_payload, which stay NULL until
\* parser_set_language.  accepted and chosen are not fields of the struct:
\* they record the roots parser__accept has seen in the parse, each as it
\* was when it was compared, and which of them finished_tree is.

ParserZero ==
  [tree_pool |-> ts_tree_pool_init, trees |-> << >>, fault |-> "",
   nodes |-> (BaseNode :> StackNodeZero), heads |-> <<StackHeadZero>>,
   finished_tree |-> NULL,
   token_cache |-> [token |-> NULL, byte_index |-> 0, last_external_token |-> NULL],
   in_ambiguity |-> FALSE,
   reusable_node |-> ReusableNodeZero,
   language |-> NULL,
   external_scanner_payload |-> NULL, scanner_calls |-> << >>,
   accepted |-> << >>, chosen |-> 0]

\* parser__restore_external_scanner giving the scanner the empty state.
parser__restore_external_scanner_empty(T, external_token) == << >>

\* What the scanner is given by parser__restore_external_scanner.
parser__restore_external_scanner(T, external_token) ==
  IF external_token # NULL THEN T[external_token].external_token_state ELSE << >>

\* A variant of the call of the external scanner that disregards a token
\* of no length in every mode.
LexExternal_nonempty(T, inp, c) ==
  Value([data \in {parser__restore_external_scanner(T, c.external_token)} |->
  Value([restored \in {external_scanner_deserialize(data)} |->
  Value([r \in {external_scanner_scan(restored, inp, c.current, c.valid_external_tokens)} |->
  LET calls == c.calls \o
                 <<[call |-> "deserialize", data |-> data, payload |-> restored],
                   [call |-> "scan", data |-> << >>, payload |-> r.payload]>>
  IN  IF r.ok /\ ~(r.token_end <= c.current)
      THEN [c EXCEPT !.found_external_token = TRUE, !.payload = r.payload, !.calls = calls,
                     !.current = r.current, !.token_start = r.token_start,
                     !.token_end = r.token_end, !.result_symbol = r.result_symbol,
                     !.reached = IF r.current > @ THEN r.current ELSE @]
      ELSE [c EXCEPT !.payload = r.payload, !.calls = calls,
                     !.last_byte_scanned = IF r.current > @ THEN r.current ELSE @,
                     !.reached = IF r.current > @ THEN r.current ELSE @]])])])

\* A variant of the call of the external scanner that does not note how far
\* a scan without a token has read.
LexExternal_unscanned(T, inp, c) ==
  Value([data \in {parser__restore_external_scanner(T, c.external_token)} |->
  Value([restored \in {external_scanner_deserialize(data)} |->
  Value([r \in {external_scanner_scan(restored, inp, c.current, c.valid_external_tokens)} |->
  LET calls == c.calls \o
                 <<[call |-> "deserialize", data |-> data, payload |-> restored],
                   [call |-> "scan", data |-> << >>, payload |-> r.payload]>>
  IN  IF r.ok /\ ~(c.error_mode /\ r.token_end <= c.current)
      THEN [c EXCEPT !.found_external_token = TRUE, !.payload = r.payload, !.calls = calls,
                     !.current = r.current, !.token_start = r.token_start,
                     !.token_end = r.token_end, !.result_symbol = r.result_symbol,
                     !.reached = IF r.current > @ THEN r.current ELSE @]
      ELSE [c EXCEPT !.payload = r.payload, !.calls = calls,
                     !.reached = IF r.current > @ THEN r.current ELSE @]])])])

\* The part of the for (;;) loop of parser__lex that calls the external
\* scanner.  The calls of its callbacks are noted in c.calls, each with the
\* bytes it is given or yields and the payload it leaves.
LexExternal(T, inp, c) ==
  Value([data \in {parser__restore_external_scanner(T, c.external_token)} |->
  Value([restored \in {external_scanner_deserialize(data)} |->
  Value([r \in {external_scanner_scan(restored, inp, c.current, c.valid_external_tokens)} |->
  LET calls == c.calls \o
                 <<[call |-> "deserialize", data |-> data, payload |-> restored],
                   [call |-> "scan", data |-> << >>, payload |-> r.payload]>>
  IN  IF r.ok /\ ~(c.error_mode /\ r.token_end <= c.current)
      THEN [c EXCEPT !.found_external_token = TRUE, !.payload = r.payload, !.calls = calls,
                     !.current = r.current, !.token_start = r.token_start,
                     !.token_end = r.token_end, !.result_symbol = r.result_symbol,
                     !.reached = IF r.current > @ THEN r.current ELSE @]
      ELSE [c EXCEPT !.payload = r.payload, !.calls = calls,
                     !.last_byte_scanned = IF r.current > @ THEN r.current ELSE @,
                     !.reached = IF r.current > @ THEN r.current ELSE @]])])])

\* The for (;;) loop of parser__lex; c holds the lexer's current position and
\* the locals of the function, and in c.reached the greatest position the
\* lexer has had in the call.
RECURSIVE LexLoop(_, _, _)
LexLoop(T, inp, c0) ==
  Value([cx \in {IF c0.valid_external_tokens # << >> THEN LexExternal(T, inp, c0) ELSE c0} |->
  IF cx.found_external_token THEN cx
  ELSE
  Value([r \in {lex_fn(inp, cx.lex_state, cx.current)} |->
  Value([c \in {[cx EXCEPT !.reached = IF r.current > @ THEN r.current ELSE @]} |->
      IF r.ok
      THEN [c EXCEPT !.current = r.current, !.token_start = r.token_start,
                     !.token_end = r.token_end, !.result_symbol = r.result_symbol]
      ELSE IF ~c.error_mode
      THEN LexLoop(T, inp,
                   [c EXCEPT !.error_mode = TRUE,
                             !.lex_state = LexModes[ERROR_STATE + 1],
                             !.external_lex_state = ExternalLexStates[ERROR_STATE],
                             !.valid_external_tokens =
                                ts_language_enabled_external_tokens(
                                  ExternalLexStates[ERROR_STATE]),
                             !.last_byte_scanned = IF r.current > @ THEN r.current ELSE @,
                             !.current = c.start_position])
      ELSE Value([c1 \in {IF ~c.skipped_error
                          THEN [c EXCEPT !.skipped_error = TRUE,
                                         !.error_start_position = r.token_start,
                                         !.error_end_position = r.token_start,
                                         !.first_error_character = LexerLookahead(inp, r.current)]
                          ELSE c} |->
               IF r.current = c1.error_end_position /\ LexerLookahead(inp, r.current) = 0
               THEN [c1 EXCEPT !.current = r.current, !.token_start = r.token_start,
                               !.token_end = r.token_end,
                               !.result_symbol = ts_builtin_sym_error]
               ELSE LET cur == IF r.current = c1.error_end_position THEN r.current + 1
                               ELSE r.current
                    IN  LexLoop(T, inp, [c1 EXCEPT !.current = cur,
                                                   !.error_end_position = cur,
                                                   !.reached = IF cur > @ THEN cur ELSE @])])])])])

\* The lexer and the locals of parser__lex before its for (;;) loop.
LexEnter(P, v, parse_state) ==
  Value([start_position \in {ts_stack_top_position(P, v)} |->
      [current |-> start_position, start_position |-> start_position,
       error_mode |-> parse_state = ERROR_STATE,
       lex_state |-> ts_language_lex_state(P.language, parse_state),
       external_lex_state |-> ExternalLexStates[parse_state],
       valid_external_tokens |->
          ts_language_enabled_external_tokens(ExternalLexStates[parse_state]),
       external_token |-> ts_stack_last_external_token(P, v),
       found_external_token |-> FALSE,
       payload |-> P.external_scanner_payload, calls |-> << >>,
       skipped_error |-> FALSE, error_start_position |-> 0,
       error_end_position |-> 0, first_error_character |-> 0,
       last_byte_scanned |-> start_position, reached |-> start_position,
       token_start |-> 0, token_end |-> 0, result_symbol |-> 0]])

parser__lex(P, inp, v, parse_state) ==
  Value([start_position \in {ts_stack_top_position(P, v)} |->
  Value([c \in {LexLoop(P.trees, inp, LexEnter(P, v, parse_state))} |->
  Value([r \in {IF c.skipped_error
                THEN ts_tree_make_error(P, c.error_end_position - c.error_start_position,
                                        c.error_start_position - start_position,
                                        c.first_error_character)
                ELSE ts_tree_make_leaf(P, IF c.found_external_token
                                          THEN ExternalSymbolMap[c.result_symbol + 1]
                                          ELSE c.result_symbol,
                                       c.token_start - start_position,
                                       c.token_end - c.token_start)} |->
  LET last == IF c.current > c.last_byte_scanned THEN c.current ELSE c.last_byte_scanned
      committed == c.found_external_token /\ ~c.skipped_error
      state == external_scanner_serialize(c.payload)
  IN  [r EXCEPT !.p.trees[r.tree].bytes_scanned = last - start_position + 1,
                !.p.trees[r.tree].parse_state = parse_state,
                !.p.trees[r.tree].first_leaf.lex_mode = c.lex_state,
                !.p.trees[r.tree].first_leaf.external_lex_state = c.external_lex_state,
                !.p.trees[r.tree].has_external_tokens = committed,
                !.p.trees[r.tree].external_token_state = IF committed THEN state ELSE << >>,
                !.p.external_scanner_payload = c.payload,
                !.p.scanner_calls =
                   IF committed
                   THEN c.calls \o <<[call |-> "serialize", data |-> state,
                                      payload |-> c.payload]>>
                   ELSE c.calls]])])])

parser__get_cached_token(P, byte_index, last_external_token) ==
  IF P.token_cache.token # NULL /\ P.token_cache.byte_index = byte_index /\
     ts_tree_external_token_state_eq(P, P.token_cache.last_external_token, last_external_token)
  THEN P.token_cache.token
  ELSE NULL

\* A variant of parser__set_cached_token that keeps the cached token when it
\* is called to empty the cache (used to test the property of C7).
parser__set_cached_token_keep(P, byte_index, last_external_token, token) ==
  IF token = NULL THEN P
  ELSE Value([P1 \in {ts_tree_retain(P, token)} |->
       Value([P2 \in {IF last_external_token # NULL THEN ts_tree_retain(P1, last_external_token)
                      ELSE P1} |->
       Value([P3 \in {IF P.token_cache.token # NULL THEN ts_tree_release(P2, P.token_cache.token)
                      ELSE P2} |->
       LET P4 == IF P.token_cache.last_external_token # NULL
                 THEN ts_tree_release(P3, P.token_cache.last_external_token) ELSE P3
       IN  [P4 EXCEPT !.token_cache = [token |-> token, byte_index |-> byte_index,
                                       last_external_token |-> last_external_token]]])])])

\* parser__set_cached_token: the cache takes a reference to the token and
\* gives up the one it had.
parser__set_cached_token(P, byte_index, last_external_token, token) ==
  Value([P1 \in {IF token # NULL THEN ts_tree_retain(P, token) ELSE P} |->
  Value([P2 \in {IF last_external_token # NULL THEN ts_tree_retain(P1, last_external_token) ELSE P1} |->
  Value([P3 \in {IF P.token_cache.token # NULL THEN ts_tree_release(P2, P.token_cache.token) ELSE P2} |->
  LET P4 == IF P.token_cache.last_external_token # NULL
            THEN ts_tree_release(P3, P.token_cache.last_external_token) ELSE P3
  IN  [P4 EXCEPT !.token_cache = [token |-> token, byte_index |-> byte_index,
                                  last_external_token |-> last_external_token]]])])])

parser__can_reuse_first_leaf(P, st, tree, entry) ==
  LET t == P.trees[tree]
  IN  (t.first_leaf.lex_mode = ts_language_lex_state(P.language, st) /\
       t.first_leaf.external_lex_state = ExternalLexStates[st]) \/
      (ExternalLexStates[st] = 0 /\ t.size > 0 /\ entry.is_reusable /\
       (~entry.depends_on_lookahead \/ (Len(t.children) > 1 /\ t.error_cost = 0)))

(***************************************************************************)
(* The reusable-node cursor (runtime/reusable_node.h).                     *)
(***************************************************************************)
reusable_node_new(tree) == [ReusableNodeZero EXCEPT !.tree = tree]

\* The next sibling of the tree, or of the nearest ancestor that has one.
RECURSIVE NextNode(_, _)
NextNode(T, tree) ==
  IF tree = NULL THEN NULL
  ELSE LET parent == T[tree].context.parent
           next   == T[tree].context.index + 1
       IN  IF parent # NULL /\ Len(T[parent].children) > next
           THEN T[parent].children[next + 1]
           ELSE NextNode(T, parent)

reusable_node_pop(P, rn) ==
  [rn EXCEPT !.byte_index = @ + ts_tree_total_bytes(P.trees[rn.tree]),
             !.last_external_token =
                IF P.trees[rn.tree].has_external_tokens
                THEN ts_tree_last_external_token(P.trees, rn.tree) ELSE @,
             !.tree = NextNode(P.trees, rn.tree)]

RECURSIVE FirstLeaf(_, _)
FirstLeaf(T, tree) ==
  IF T[tree].children = << >> THEN tree ELSE FirstLeaf(T, T[tree].children[1])

reusable_node_pop_leaf(P, rn) ==
  reusable_node_pop(P, [rn EXCEPT !.tree = FirstLeaf(P.trees, rn.tree)])

\* The cursor after the call, and whether the node had children.
reusable_node_breakdown(P, rn) ==
  IF P.trees[rn.tree].children = << >>
  THEN [rn |-> rn, ok |-> FALSE]
  ELSE [rn |-> [rn EXCEPT !.tree = P.trees[rn.tree].children[1]], ok |-> TRUE]

\* parser__breakdown_top_of_stack: the children of the parent of one slice
\* are pushed in its place; c is [p, state, pending].
RECURSIVE BreakdownChildren(_, _, _, _)
BreakdownChildren(c, v, children, j) ==
  IF j > Len(children) THEN c
  ELSE LET child == c.p.trees[children[j]]
       IN  Value([st \in {IF child.symbol = ts_builtin_sym_error THEN ERROR_STATE
                          ELSE IF ~child.extra THEN ts_language_next_state(c.p.language, c.state, child.symbol)
                          ELSE c.state} |->
       LET pend  == child.children # << >>
       IN  BreakdownChildren([p |-> ts_stack_push(c.p, v, children[j], pend, st),
                              state |-> st, pending |-> pend],
                             v, children, j + 1)])

RECURSIVE PushTrees(_, _, _, _, _)
PushTrees(P, v, trees, j, st) ==
  IF j > Len(trees) THEN P
  ELSE PushTrees(ts_tree_release(ts_stack_push(P, v, trees[j], FALSE, st), trees[j]),
                 v, trees, j + 1, st)

RECURSIVE BreakdownSlices(_, _, _, _)
BreakdownSlices(P, slices, i, pending) ==
  IF i > Len(slices) THEN [p |-> P, pending |-> pending]
  ELSE LET slice  == slices[i]
           parent == slice.trees[1]
           kids   == P.trees[parent].children
       IN  Value([c \in {BreakdownChildren([p |-> P, state |-> ts_stack_top_state(P, slice.version),
                                            pending |-> pending],
                                           slice.version, kids, 1)} |->
       Value([P1 \in {PushTrees(c.p, slice.version, slice.trees, 2, c.state)} |->
       LET P2     == ts_stack_decrease_push_count(P1, slice.version, Len(kids) + 1)
       IN  BreakdownSlices(ts_tree_release(P2, parent), slices, i + 1, c.pending)])])

\* The parser struct after the call, and did_break_down.
RECURSIVE BreakdownLoop(_, _, _)
BreakdownLoop(P, v, did) ==
  Value([pop \in {ts_stack_pop_pending(P, v)} |->
      IF pop.slices = << >> THEN [p |-> pop.p, did_break_down |-> did]
      ELSE Value([r \in {BreakdownSlices(pop.p, pop.slices, 1, FALSE)} |->
               IF r.pending THEN BreakdownLoop(r.p, v, TRUE)
               ELSE [p |-> r.p, did_break_down |-> TRUE]])])

parser__breakdown_top_of_stack(P, v) == BreakdownLoop(P, v, FALSE)

\* parser__breakdown_lookahead: the cursor descends to a node made in the
\* state, or to a leaf; c is [p, lookahead, reusable_node].
RECURSIVE BreakdownCursor(_, _, _, _)
BreakdownCursor(P, rn, st, did) ==
  IF P.trees[rn.tree].children # << >> /\ P.trees[rn.tree].parse_state # st
  THEN BreakdownCursor(P, reusable_node_breakdown(P, rn).rn, st, TRUE)
  ELSE [rn |-> rn, did_break_down |-> did]

\* A variant of parser__breakdown_lookahead whose loop goes on while the
\* parse_state of the tree is the state, not while it differs from it.
RECURSIVE BreakdownCursor_same(_, _, _, _)
BreakdownCursor_same(P, rn, st, did) ==
  IF P.trees[rn.tree].children # << >> /\ P.trees[rn.tree].parse_state = st
  THEN BreakdownCursor_same(P, reusable_node_breakdown(P, rn).rn, st, TRUE)
  ELSE [rn |-> rn, did_break_down |-> did]

parser__breakdown_lookahead_same(P, la, st, rn) ==
  Value([r \in {BreakdownCursor_same(P, rn, st, FALSE)} |->
      IF r.did_break_down
      THEN [p |-> ts_tree_retain(ts_tree_release(P, la), r.rn.tree),
            lookahead |-> r.rn.tree, reusable_node |-> r.rn]
      ELSE [p |-> P, lookahead |-> la, reusable_node |-> rn]])

parser__breakdown_lookahead(P, la, st, rn) ==
  Value([r \in {BreakdownCursor(P, rn, st, FALSE)} |->
      IF r.did_break_down
      THEN [p |-> ts_tree_retain(ts_tree_release(P, la), r.rn.tree),
            lookahead |-> r.rn.tree, reusable_node |-> r.rn]
      ELSE [p |-> P, lookahead |-> la, reusable_node |-> rn]])

\* A variant of the loop of parser__get_lookahead that does not look at the
\* fragile flags of the tree of the cursor.
RECURSIVE GetLookaheadLoop_fragile(_, _, _)
GetLookaheadLoop_fragile(g, inp, v) ==
  LET P        == g.p
      rn       == g.reusable_node
      result   == rn.tree
  IN  Value([position \in {ts_stack_top_position(P, v)} |->
  Value([lex \in {Value([cached \in {parser__get_cached_token(P, position, ts_stack_last_external_token(P, v))} |->
                  Value([ce \in {IF cached = NULL THEN ts_language_table_entry(P.language, g.state, 0)
                                 ELSE ts_language_table_entry(P.language, g.state, P.trees[cached].first_leaf.symbol)} |->
                      IF cached # NULL /\ parser__can_reuse_first_leaf(P, g.state, cached, ce)
                      THEN [g EXCEPT !.p = ts_tree_retain(P, cached)] @@
                           [table_entry |-> ce, lookahead |-> cached]
                      ELSE Value([r \in {parser__lex(P, inp, v, g.state)} |->
                               [g EXCEPT !.p = parser__set_cached_token(r.p, position,
                                                 ts_stack_last_external_token(P, v), r.tree)] @@
                               [table_entry |-> ts_language_table_entry(P.language, g.state, r.p.trees[r.tree].symbol),
                                lookahead |-> r.tree]])])])} |->
      IF result = NULL THEN lex
      ELSE IF result \notin DOMAIN P.trees
      THEN [g EXCEPT !.p = Fault(P, "read of a freed tree")] @@
           [table_entry |-> ts_language_table_entry(P.language, g.state, 0), lookahead |-> NULL]
      ELSE IF rn.byte_index > position THEN lex
      ELSE IF rn.byte_index < position
      THEN GetLookaheadLoop_fragile([g EXCEPT !.reusable_node = reusable_node_pop(P, rn)], inp, v)
      ELSE IF ~ts_tree_external_token_state_eq(P, rn.last_external_token,
                                               ts_stack_last_external_token(P, v))
      THEN GetLookaheadLoop_fragile([g EXCEPT !.reusable_node = reusable_node_pop(P, rn)], inp, v)
      ELSE LET t == P.trees[result]
           IN  IF t.has_changes \/ t.symbol = ts_builtin_sym_error \/
                  (P.in_ambiguity /\ t.children # << >>)
               THEN Value([b \in {reusable_node_breakdown(P, rn)} |->
                        IF b.ok
                        THEN GetLookaheadLoop_fragile([g EXCEPT !.reusable_node = b.rn], inp, v)
                        ELSE Value([bd \in {parser__breakdown_top_of_stack(P, v)} |->
                                 GetLookaheadLoop_fragile(
                                   [p |-> bd.p, state |-> ts_stack_top_state(bd.p, v),
                                    reusable_node |-> reusable_node_pop(P, rn)], inp, v)])])
               ELSE Value([e \in {ts_language_table_entry(P.language, g.state, t.first_leaf.symbol)} |->
                        IF ~parser__can_reuse_first_leaf(P, g.state, result, e)
                        THEN Value([g1 \in {[g EXCEPT !.reusable_node = reusable_node_pop_leaf(P, rn)]} |->
                             LET l1 == GetLookaheadLoop_fragile([g1 EXCEPT !.reusable_node.tree = NULL], inp, v)
                             IN  [l1 EXCEPT !.reusable_node = g1.reusable_node]])
                        ELSE [g EXCEPT !.p = ts_tree_retain(P, result)] @@
                             [table_entry |-> e, lookahead |-> result]])])])

\* parser__get_lookahead; g is [p, state, reusable_node] and the result adds
\* the table entry and the lookahead.
RECURSIVE GetLookaheadLoop(_, _, _)
GetLookaheadLoop(g, inp, v) ==
  LET P        == g.p
      rn       == g.reusable_node
      result   == rn.tree
  IN  Value([position \in {ts_stack_top_position(P, v)} |->
  Value([lex \in {Value([cached \in {parser__get_cached_token(P, position, ts_stack_last_external_token(P, v))} |->
                  Value([ce \in {IF cached = NULL THEN ts_language_table_entry(P.language, g.state, 0)
                                 ELSE ts_language_table_entry(P.language, g.state, P.trees[cached].first_leaf.symbol)} |->
                      IF cached # NULL /\ parser__can_reuse_first_leaf(P, g.state, cached, ce)
                      THEN [g EXCEPT !.p = ts_tree_retain(P, cached)] @@
                           [table_entry |-> ce, lookahead |-> cached]
                      ELSE Value([r \in {parser__lex(P, inp, v, g.state)} |->
                               [g EXCEPT !.p = parser__set_cached_token(r.p, position,
                                                 ts_stack_last_external_token(P, v), r.tree)] @@
                               [table_entry |-> ts_language_table_entry(P.language, g.state, r.p.trees[r.tree].symbol),
                                lookahead |-> r.tree]])])])} |->
      IF result = NULL THEN lex
      ELSE IF result \notin DOMAIN P.trees
      THEN [g EXCEPT !.p = Fault(P, "read of a freed tree")] @@
           [table_entry |-> ts_language_table_entry(P.language, g.state, 0), lookahead |-> NULL]
      ELSE IF rn.byte_index > position THEN lex
      ELSE IF rn.byte_index < position
      THEN GetLookaheadLoop([g EXCEPT !.reusable_node = reusable_node_pop(P, rn)], inp, v)
      ELSE IF ~ts_tree_external_token_state_eq(P, rn.last_external_token,
                                               ts_stack_last_external_token(P, v))
      THEN GetLookaheadLoop([g EXCEPT !.reusable_node = reusable_node_pop(P, rn)], inp, v)
      ELSE LET t == P.trees[result]
           IN  IF t.has_changes \/ t.symbol = ts_builtin_sym_error \/
                  t.fragile_left \/ t.fragile_right \/
                  (P.in_ambiguity /\ t.children # << >>)
               THEN Value([b \in {reusable_node_breakdown(P, rn)} |->
                        IF b.ok
                        THEN GetLookaheadLoop([g EXCEPT !.reusable_node = b.rn], inp, v)
                        ELSE Value([bd \in {parser__breakdown_top_of_stack(P, v)} |->
                                 GetLookaheadLoop(
                                   [p |-> bd.p, state |-> ts_stack_top_state(bd.p, v),
                                    reusable_node |-> reusable_node_pop(P, rn)], inp, v)])])
               ELSE Value([e \in {ts_language_table_entry(P.language, g.state, t.first_leaf.symbol)} |->
                        IF ~parser__can_reuse_first_leaf(P, g.state, result, e)
                        THEN Value([g1 \in {[g EXCEPT !.reusable_node = reusable_node_pop_leaf(P, rn)]} |->
                             LET l1 == GetLookaheadLoop([g1 EXCEPT !.reusable_node.tree = NULL], inp, v)
                             IN  [l1 EXCEPT !.reusable_node = g1.reusable_node]])
                        ELSE [g EXCEPT !.p = ts_tree_retain(P, result)] @@
                             [table_entry |-> e, lookahead |-> result]])])])

parser__get_lookahead(P, inp, v, st, rn) ==
  GetLookaheadLoop([p |-> P, state |-> st, reusable_node |-> rn], inp, v)

\* A variant of parser__select_tree that does not look at the dynamic
\* precedence (used to test the property of C4).
parser__select_tree_noprec(T, left, right) ==
  IF left = NULL THEN TRUE
  ELSE IF right = NULL THEN FALSE
  ELSE IF UnsignedLess(T[right].error_cost, T[left].error_cost) THEN TRUE
  ELSE IF UnsignedLess(T[left].error_cost, T[right].error_cost) THEN FALSE
  ELSE IF T[left].error_cost # 0 THEN TRUE
  ELSE ts_tree_compare(T, left, right) = 1

\* A variant of parser__select_tree that takes the new tree when
\* ts_tree_compare reports equality (used to test the property of C5).
parser__select_tree_new(T, left, right) ==
  IF left = NULL THEN TRUE
  ELSE IF right = NULL THEN FALSE
  ELSE IF UnsignedLess(T[right].error_cost, T[left].error_cost) THEN TRUE
  ELSE IF UnsignedLess(T[left].error_cost, T[right].error_cost) THEN FALSE
  ELSE IF T[right].dynamic_precedence > T[left].dynamic_precedence THEN TRUE
  ELSE IF T[left].dynamic_precedence > T[right].dynamic_precedence THEN FALSE
  ELSE IF T[left].error_cost # 0 THEN TRUE
  ELSE ts_tree_compare(T, left, right) >= 0

\* parser__select_tree(left, right): TRUE when the right tree is to replace
\* the left one.  T is the memory the two pointers are read from.
parser__select_tree(T, left, right) ==
  IF left = NULL THEN TRUE
  ELSE IF right = NULL THEN FALSE
  ELSE IF UnsignedLess(T[right].error_cost, T[left].error_cost) THEN TRUE
  ELSE IF UnsignedLess(T[left].error_cost, T[right].error_cost) THEN FALSE
  ELSE IF T[right].dynamic_precedence > T[left].dynamic_precedence THEN TRUE
  ELSE IF T[left].dynamic_precedence > T[right].dynamic_precedence THEN FALSE
  ELSE IF T[left].error_cost # 0 THEN TRUE
  ELSE ts_tree_compare(T, left, right) = 1

\* parser__shift, after the push: the version remembers the last external
\* token of what it has shifted.
ShiftExternalToken(P, v, la) ==
  IF P.trees[la].has_external_tokens
  THEN ts_stack_set_last_external_token(P, v, ts_tree_last_external_token(P.trees, la))
  ELSE P

parser__shift(P, v, st, la, extra) ==
  Value([copy \in {ts_tree_make_copy(P, la)} |->
  Value([P1 \in {IF extra # P.trees[la].extra
                 THEN IF ts_stack_version_count(P) > 1
                      THEN [copy.p EXCEPT !.trees[copy.tree].extra = extra]
                      ELSE [ts_tree_retain(P, la) EXCEPT !.trees[la].extra = extra]
                 ELSE ts_tree_retain(P, la)} |->
  Value([la1 \in {IF extra # P.trees[la].extra /\ ts_stack_version_count(P) > 1
                  THEN copy.tree ELSE la} |->
  Value([P2 \in {ShiftExternalToken(
                   ts_stack_push(P1, v, la1, P1.trees[la1].children # << >>, st), v, la1)} |->
      ts_tree_release(P2, la1)])])])])

\* The address of self->scratch_tree.
SCRATCH_TREE == -1

\* parser__replace_children(tree, children): the parser struct after the
\* call and whether the children were replaced.
parser__replace_children(P, tree, children) ==
  Value([scratch \in {ts_tree_set_children(P.trees, P.trees[tree], children)} |->
  LET T1      == (SCRATCH_TREE :> scratch) @@ P.trees
  IN  IF parser__select_tree(T1, tree, SCRATCH_TREE)
      THEN [p |-> [P EXCEPT !.trees[tree] = scratch], replaced |-> TRUE]
      ELSE [p |-> P, replaced |-> FALSE]])

\* A variant of the loop over the slices of one version that keeps the
\* children of the first slice.
RECURSIVE ReduceAlternatives_first(_, _, _)
ReduceAlternatives_first(c, slices, parent) ==
  IF c.i + 1 > Len(slices) \/ slices[c.i + 1].version # c.slice.version THEN c
  ELSE ReduceAlternatives_first([p |-> ts_tree_array_delete(c.p, slices[c.i + 1].trees),
                                 slice |-> c.slice, i |-> c.i + 1], slices, parent)

\* The slices that follow slice i with its version: the parent takes the
\* children of the one parser__select_tree prefers; c is [p, slice, i].
RECURSIVE ReduceAlternatives(_, _, _)
ReduceAlternatives(c, slices, parent) ==
  IF c.i + 1 > Len(slices) \/ slices[c.i + 1].version # c.slice.version THEN c
  ELSE LET next_slice == slices[c.i + 1]
           child_count == EssentialCount(c.p.trees, next_slice.trees, Len(next_slice.trees))
       IN  Value([r \in {parser__replace_children(c.p, parent, SubSeq(next_slice.trees, 1, child_count))} |->
           IF r.replaced
           THEN ReduceAlternatives([p |-> ts_tree_array_delete(r.p, c.slice.trees),
                                    slice |-> next_slice, i |-> c.i + 1], slices, parent)
           ELSE ReduceAlternatives([p |-> ts_tree_array_delete(r.p, next_slice.trees),
                                    slice |-> c.slice, i |-> c.i + 1], slices, parent)])

\* parser__reduce without the test of the version count at entry.
RECURSIVE ReduceSlices_entrycount(_, _, _, _, _)
ReduceSlices_entrycount(P, slices, i, a, initial_version_count) ==
  IF i > Len(slices) THEN P
  ELSE LET slice0 == slices[i]
           cc0    == EssentialCount(P.trees, slice0.trees, Len(slice0.trees))
       IN  Value([mk \in {ts_tree_make_node(P, a.symbol, SubSeq(slice0.trees, 1, cc0), a.alias_sequence_id)} |->
       LET parent == mk.tree
       IN  Value([c \in {ReduceAlternatives([p |-> mk.p, slice |-> slice0, i |-> i], slices, parent)} |->
       LET slice  == c.slice
       IN  Value([st \in {ts_stack_top_state(c.p, slice.version)} |->
       Value([next_state \in {ts_language_next_state(P.language, st, a.symbol)} |->
       LET frag   == a.fragile \/ c.p.in_ambiguity \/ Len(slices) > 1
           P1     == [c.p EXCEPT
                        !.trees[parent].dynamic_precedence = @ + a.dynamic_precedence,
                        !.trees[parent].alias_sequence_id = a.alias_sequence_id,
                        !.trees[parent].fragile_left = IF frag THEN TRUE ELSE @,
                        !.trees[parent].fragile_right = IF frag THEN TRUE ELSE @,
                        !.trees[parent].parse_state = IF frag THEN TS_TREE_STATE_NONE ELSE st]
       IN  Value([P2 \in {ts_tree_release(ts_stack_push(P1, slice.version, parent, FALSE, next_state), parent)} |->
       LET P3     == PushTrees(P2, slice.version, slice.trees,
                               Len(P2.trees[parent].children) + 1, next_state)
       IN  ReduceSlices_entrycount(P3, slices, c.i + 1, a, initial_version_count)])])])])])

\* parser__reduce without the push of the extras that were on top of the
\* popped trees.
RECURSIVE ReduceSlices_noextras(_, _, _, _, _)
ReduceSlices_noextras(P, slices, i, a, initial_version_count) ==
  IF i > Len(slices) THEN P
  ELSE LET slice0 == slices[i]
           cc0    == EssentialCount(P.trees, slice0.trees, Len(slice0.trees))
       IN  Value([mk \in {ts_tree_make_node(P, a.symbol, SubSeq(slice0.trees, 1, cc0), a.alias_sequence_id)} |->
       LET parent == mk.tree
       IN  Value([c \in {ReduceAlternatives([p |-> mk.p, slice |-> slice0, i |-> i], slices, parent)} |->
       LET slice  == c.slice
       IN  Value([st \in {ts_stack_top_state(c.p, slice.version)} |->
       Value([next_state \in {ts_language_next_state(P.language, st, a.symbol)} |->
       LET frag   == a.fragile \/ c.p.in_ambiguity \/ Len(slices) > 1 \/ initial_version_count > 1
           P1     == [c.p EXCEPT
                        !.trees[parent].dynamic_precedence = @ + a.dynamic_precedence,
                        !.trees[parent].alias_sequence_id = a.alias_sequence_id,
                        !.trees[parent].fragile_left = IF frag THEN TRUE ELSE @,
                        !.trees[parent].fragile_right = IF frag THEN TRUE ELSE @,
                        !.trees[parent].parse_state = IF frag THEN TS_TREE_STATE_NONE ELSE st]
       IN  Value([P2 \in {ts_tree_release(ts_stack_push(P1, slice.version, parent, FALSE, next_state), parent)} |->
           ReduceSlices_noextras(P2, slices, c.i + 1, a, initial_version_count)])])])])])

RECURSIVE ReduceSlices(_, _, _, _, _)
ReduceSlices(P, slices, i, a, initial_version_count) ==
  IF i > Len(slices) THEN P
  ELSE LET slice0 == slices[i]
           cc0    == EssentialCount(P.trees, slice0.trees, Len(slice0.trees))
       IN  Value([mk \in {ts_tree_make_node(P, a.symbol, SubSeq(slice0.trees, 1, cc0), a.alias_sequence_id)} |->
       LET parent == mk.tree
       IN  Value([c \in {ReduceAlternatives([p |-> mk.p, slice |-> slice0, i |-> i], slices, parent)} |->
       LET slice  == c.slice
       IN  Value([st \in {ts_stack_top_state(c.p, slice.version)} |->
       Value([next_state \in {ts_language_next_state(P.language, st, a.symbol)} |->
       LET frag   == a.fragile \/ c.p.in_ambiguity \/ Len(slices) > 1 \/ initial_version_count > 1
           P1     == [c.p EXCEPT
                        !.trees[parent].dynamic_precedence = @ + a.dynamic_precedence,
                        !.trees[parent].alias_sequence_id = a.alias_sequence_id,
                        !.trees[parent].fragile_left = IF frag THEN TRUE ELSE @,
                        !.trees[parent].fragile_right = IF frag THEN TRUE ELSE @,
                        !.trees[parent].parse_state = IF frag THEN TS_TREE_STATE_NONE ELSE st]
       IN  Value([P2 \in {ts_tree_release(ts_stack_push(P1, slice.version, parent, FALSE, next_state), parent)} |->
       LET P3     == PushTrees(P2, slice.version, slice.trees,
                               Len(P2.trees[parent].children) + 1, next_state)
       IN  ReduceSlices(P3, slices, c.i + 1, a, initial_version_count)])])])])])

\* The versions made by the reduction that can be merged are merged.
RECURSIVE ReduceMerge(_, _, _, _)
ReduceMerge(P, i, j, initial_version_count) ==
  IF i >= ts_stack_version_count(P) THEN P
  ELSE IF j >= i THEN ReduceMerge(P, i + 1, initial_version_count, initial_version_count)
  ELSE Value([m \in {ts_stack_merge(P, j, i)} |->
           IF m.merged THEN ReduceMerge(m.p, i, initial_version_count, initial_version_count)
           ELSE ReduceMerge(P, i, j + 1, initial_version_count)])

\* A variant of parser__reduce whose merge pass compares the versions it
\* made with every version.
parser__reduce_mergeall(P, v, a) ==
  Value([initial_version_count \in {ts_stack_version_count(P)} |->
  Value([pop \in {ts_stack_pop_count(P, v, a.child_count)} |->
  LET P1  == ReduceSlices(pop.p, pop.slices, 1, a, initial_version_count)
  IN  [p |-> ReduceMerge(P1, initial_version_count, 0, 0),
       slices |-> pop.slices]])])

\* parser__reduce; a is the reduce action.  The result has the parser struct
\* and the slices of the pop.
parser__reduce(P, v, a) ==
  Value([initial_version_count \in {ts_stack_version_count(P)} |->
  Value([pop \in {ts_stack_pop_count(P, v, a.child_count)} |->
  LET P1  == ReduceSlices(pop.p, pop.slices, 1, a, initial_version_count)
  IN  [p |-> ReduceMerge(P1, initial_version_count, initial_version_count, initial_version_count),
       slices |-> pop.slices]])])

\* The trees of `todo` and the trees under them.
RECURSIVE TreesUnder(_, _, _)
TreesUnder(T, todo, seen) ==
  IF todo = {} THEN seen
  ELSE Value([t \in {CHOOSE x \in todo : TRUE} |->
       LET next == IF t \in DOMAIN T
                   THEN {T[t].children[k] : k \in 1 .. Len(T[t].children)} ELSE {}
       IN  TreesUnder(T, (todo \cup next) \ (seen \cup {t}), seen \cup {t})])

\* The root of one slice of parser__accept: the last tree that is not an
\* extra takes the other trees among its children.  The result has the
\* parser struct and the root (NULL if there is none).  The first
\* definition is a variant whose loop ends before the first tree of the
\* slice.
RECURSIVE AcceptRoot_skipfirst(_, _, _)
AcceptRoot_skipfirst(P, trees, j) ==
  IF j <= 1 THEN [p |-> P, root |-> NULL]
  ELSE LET child == trees[j]
       IN  IF ~P.trees[child].extra
           THEN Value([copy \in {ts_tree_make_copy(P, child)} |->
                LET kids == P.trees[child].children
                IN  Value([P1 \in {RetainSeq([copy.p EXCEPT !.trees[copy.tree].children = << >>], kids)} |->
                LET all  == SubSeq(trees, 1, j - 1) \o kids \o SubSeq(trees, j + 1, Len(trees))
                    P2   == [P1 EXCEPT !.trees[copy.tree] = ts_tree_set_children(P1.trees, @, all)]
                IN  [p |-> ts_tree_release(P2, child), root |-> copy.tree]])])
           ELSE AcceptRoot_skipfirst(P, trees, j - 1)

RECURSIVE AcceptRoot(_, _, _)
AcceptRoot(P, trees, j) ==
  IF j = 0 THEN [p |-> P, root |-> NULL]
  ELSE LET child == trees[j]
       IN  IF ~P.trees[child].extra
           THEN Value([copy \in {ts_tree_make_copy(P, child)} |->
                LET kids == P.trees[child].children
                IN  Value([P1 \in {RetainSeq([copy.p EXCEPT !.trees[copy.tree].children = << >>], kids)} |->
                LET all  == SubSeq(trees, 1, j - 1) \o kids \o SubSeq(trees, j + 1, Len(trees))
                    P2   == [P1 EXCEPT !.trees[copy.tree] = ts_tree_set_children(P1.trees, @, all)]
                IN  [p |-> ts_tree_release(P2, child), root |-> copy.tree]])])
           ELSE AcceptRoot(P, trees, j - 1)

\* The root and the trees under it, as they are in the memory T.
Snapshot(T, root) ==
  [root |-> root,
   trees |-> [t \in {x \in DOMAIN T : x \in TreesUnder(T, {root}, {})} |-> T[t]]]

\* The root is recorded as seen by parser__accept.
RecordRoot(r) ==
  IF r.root = NULL THEN r
  ELSE [r EXCEPT !.p.accepted = Append(@, Snapshot(r.p.trees, r.root))]

\* A variant of the loop of parser__accept that makes every root the
\* finished tree without a call of parser__select_tree.
RECURSIVE AcceptSlices_last(_, _, _)
AcceptSlices_last(P, slices, i) ==
  IF i > Len(slices) THEN P
  ELSE LET trees == slices[i].trees
       IN  Value([r \in {RecordRoot(IF Len(trees) = 1 THEN [p |-> P, root |-> trees[1]]
                                    ELSE AcceptRoot(P, trees, Len(trees)))} |->
           IF r.root = NULL
           THEN Fault(r.p, "assert(root && root->ref_count > 0)")
           ELSE IF r.p.finished_tree # NULL
           THEN AcceptSlices_last([ts_tree_release(r.p, r.p.finished_tree)
                                     EXCEPT !.finished_tree = r.root,
                                            !.chosen = Len(r.p.accepted)], slices, i + 1)
           ELSE AcceptSlices_last([r.p EXCEPT !.finished_tree = r.root,
                                              !.chosen = Len(r.p.accepted)], slices, i + 1)])

RECURSIVE AcceptSlices(_, _, _)
AcceptSlices(P, slices, i) ==
  IF i > Len(slices) THEN P
  ELSE LET trees == slices[i].trees
       IN  Value([r \in {RecordRoot(IF Len(trees) = 1 THEN [p |-> P, root |-> trees[1]]
                                    ELSE AcceptRoot(P, trees, Len(trees)))} |->
           IF r.root = NULL
           THEN Fault(r.p, "assert(root && root->ref_count > 0)")
           ELSE IF r.p.finished_tree # NULL
           THEN IF parser__select_tree(r.p.trees, r.p.finished_tree, r.root)
                THEN AcceptSlices([ts_tree_release(r.p, r.p.finished_tree)
                                     EXCEPT !.finished_tree = r.root,
                                            !.chosen = Len(r.p.accepted)], slices, i + 1)
                ELSE AcceptSlices(ts_tree_release(r.p, r.root), slices, i + 1)
           ELSE AcceptSlices([r.p EXCEPT !.finished_tree = r.root,
                                         !.chosen = Len(r.p.accepted)], slices, i + 1)])

parser__accept(P, v, la) ==
  IF P.trees[la].symbol # ts_builtin_sym_end
  THEN Fault(P, "assert(lookahead->symbol == ts_builtin_sym_end)")
  ELSE LET P1  == ts_stack_push([P EXCEPT !.trees[la].extra = TRUE], v, la, FALSE, 1)
       IN  Value([pop \in {ts_stack_pop_all(P1, v)} |->
       LET P2  == AcceptSlices(pop.p, pop.slices, 1)
       IN  ts_stack_halt(ts_stack_remove_version(P2, pop.slices[1].version), v)])

\* The reduce actions of the state, over every token, without duplicates
\* (ts_reduce_action_set_add), and whether the state has a shift action.
\* c is [has_shift_action, reduce_actions] and the place in the loops: the
\* symbol and the index i of its action.  CollectAction is one step: the
\* body for that action, or the move to the next symbol.
CollectAction(language, st, c) ==
  Value([actions \in {ts_language_table_entry(language, st, c.symbol).actions} |->
      IF c.i > Len(actions) THEN [c EXCEPT !.symbol = @ + 1, !.i = 1]
      ELSE LET action == actions[c.i]
               ra     == [symbol |-> action.symbol, count |-> action.child_count,
                          dynamic_precedence |-> action.dynamic_precedence,
                          alias_sequence_id |-> action.alias_sequence_id]
               next   == [c EXCEPT !.i = @ + 1]
           IN  IF action.extra THEN next
               ELSE IF action.type \in {"Shift", "Recover"}
               THEN [next EXCEPT !.has_shift_action = TRUE]
               ELSE IF action.type = "Reduce" /\ action.child_count > 0 /\
                       ~\E k \in 1 .. Len(c.reduce_actions) :
                           c.reduce_actions[k].symbol = ra.symbol /\ c.reduce_actions[k].count = ra.count
               THEN [next EXCEPT !.reduce_actions = Append(@, ra)]
               ELSE next])

RECURSIVE CollectActions(_, _, _)
CollectActions(language, st, c) ==
  IF c.symbol >= TOKEN_COUNT THEN c
  ELSE CollectActions(language, st, CollectAction(language, st, c))

\* The loop over the reduce actions that were collected; c is the parser
\* struct and the index of the action.
RECURSIVE PotentialReduce(_, _, _)
PotentialReduce(c, v, actions) ==
  IF c.i > Len(actions) THEN c.p
  ELSE PotentialReduce(
         [p |-> parser__reduce(c.p, v, [ActionZero EXCEPT
                   !.type = "Reduce", !.symbol = actions[c.i].symbol,
                   !.child_count = actions[c.i].count,
                   !.dynamic_precedence = actions[c.i].dynamic_precedence,
                   !.alias_sequence_id = actions[c.i].alias_sequence_id,
                   !.fragile = TRUE]).p,
          i |-> c.i + 1],
         v, actions)

\* A variant of parser__do_potential_reductions that reports a shift action
\* after every reduction (used to test the property of C21).
parser__do_potential_reductions_true(P, v) ==
  Value([c \in {CollectActions(P.language, ts_stack_top_state(P, v),
                               [has_shift_action |-> FALSE, reduce_actions |-> << >>,
                                symbol |-> 0, i |-> 1])} |->
      [p |-> PotentialReduce([p |-> P, i |-> 1], v, c.reduce_actions), result |-> TRUE]])

\* The parser struct after the call and the value returned.
parser__do_potential_reductions(P, v) ==
  Value([c \in {CollectActions(P.language, ts_stack_top_state(P, v),
                               [has_shift_action |-> FALSE, reduce_actions |-> << >>,
                                symbol |-> 0, i |-> 1])} |->
  LET previous_version_count == ts_stack_version_count(P)
  IN  Value([P1 \in {PotentialReduce([p |-> P, i |-> 1], v, c.reduce_actions)} |->
      IF c.reduce_actions # << >>
      THEN IF c.has_shift_action THEN [p |-> P1, result |-> TRUE]
           ELSE [p |-> ts_stack_renumber_version(P1, previous_version_count, v),
                 result |-> FALSE]
      ELSE [p |-> P1, result |-> TRUE]])])

\* A variant of parser__compare_versions that takes the version of larger
\* cost (used to test the property of C9).
parser__compare_versions_inverted(a, b) ==
  IF UnsignedLess(a.cost, b.cost) THEN "TakeRight"
  ELSE IF UnsignedLess(b.cost, a.cost) THEN "TakeLeft"
  ELSE "None"

\* The product of two unsigned values, as the 32 bits of an unsigned hold
\* it: the upper and the lower 16 bits.
UnsignedProduct(x, y) ==
  LET xl == x % 65536
      xh == x \div 65536
      yl == y % 65536
      yh == y \div 65536
      t1 == xl * (yl % 256)
      t2 == xl * (yl \div 256)
      lo == (t1 % 65536) + (t2 % 256) * 256
      hi == (t1 \div 65536) + (t2 \div 256) + (lo \div 65536) +
            ((xh * yl) % 65536) + ((xl * yh) % 65536)
  IN  [hi |-> hi % 65536, lo |-> lo % 65536]

\* product > bound, for a bound below 2^16.
UnsignedExceeds(product, bound) == product.hi > 0 \/ product.lo > bound

\* A variant of parser__compare_versions that multiplies by the push count
\* of a on both sides.
parser__compare_versions_leftcount(a, b) ==
  IF ~a.is_in_error /\ b.is_in_error
  THEN IF UnsignedLess(a.cost, b.cost) THEN "TakeLeft" ELSE "PreferLeft"
  ELSE IF a.is_in_error /\ ~b.is_in_error
  THEN IF UnsignedLess(b.cost, a.cost) THEN "TakeRight" ELSE "PreferRight"
  ELSE IF UnsignedLess(a.cost, b.cost)
  THEN IF UnsignedExceeds(UnsignedProduct(b.cost - a.cost, 1 + a.push_count),
                          MAX_COST_DIFFERENCE)
       THEN "TakeLeft" ELSE "PreferLeft"
  ELSE IF UnsignedLess(b.cost, a.cost)
  THEN IF UnsignedExceeds(UnsignedProduct(a.cost - b.cost, 1 + a.push_count),
                          MAX_COST_DIFFERENCE)
       THEN "TakeRight" ELSE "PreferRight"
  ELSE "None"

\* parser__compare_versions(a, b), a and b the ErrorStatus of two versions.
\* cost and push_count are unsigned, and so is the product that is compared
\* with MAX_COST_DIFFERENCE.
parser__compare_versions(a, b) ==
  IF ~a.is_in_error /\ b.is_in_error
  THEN IF UnsignedLess(a.cost, b.cost) THEN "TakeLeft" ELSE "PreferLeft"
  ELSE IF a.is_in_error /\ ~b.is_in_error
  THEN IF UnsignedLess(b.cost, a.cost) THEN "TakeRight" ELSE "PreferRight"
  ELSE IF UnsignedLess(a.cost, b.cost)
  THEN IF UnsignedExceeds(UnsignedProduct(b.cost - a.cost, 1 + a.push_count),
                          MAX_COST_DIFFERENCE)
       THEN "TakeLeft" ELSE "PreferLeft"
  ELSE IF UnsignedLess(b.cost, a.cost)
  THEN IF UnsignedExceeds(UnsignedProduct(a.cost - b.cost, 1 + b.push_count),
                          MAX_COST_DIFFERENCE)
       THEN "TakeRight" ELSE "PreferRight"
  ELSE "None"

ErrorStatusOf(P, i) ==
  [cost |-> ts_stack_error_cost(P, i),
   is_in_error |-> ts_stack_top_state(P, i) = ERROR_STATE,
   push_count |-> ts_stack_push_count(P, i)]

\* A variant of parser__better_version_exists that counts every PreferRight
\* verdict, mergeable or not (used to test the property of C19).
parser__better_version_exists_anyprefer(P, v, is_in_error, cost) ==
  (P.finished_tree # NULL /\ ~UnsignedLess(cost, P.trees[P.finished_tree].error_cost)) \/
  \E i \in 0 .. (ts_stack_version_count(P) - 1) :
     /\ i # v
     /\ ~ts_stack_is_halted(P, i)
     /\ parser__compare_versions(
          [cost |-> cost, is_in_error |-> is_in_error, push_count |-> 0],
          ErrorStatusOf(P, i)) \in {"TakeRight", "PreferRight"}

\* parser__better_version_exists answering yes whatever the other versions
\* and the finished tree are.
parser__better_version_exists_always(P, v, is_in_error, cost) ==
  TRUE

parser__better_version_exists(P, v, is_in_error, cost) ==
  (P.finished_tree # NULL /\ ~UnsignedLess(cost, P.trees[P.finished_tree].error_cost)) \/
  \E i \in 0 .. (ts_stack_version_count(P) - 1) :
     /\ i # v
     /\ ~ts_stack_is_halted(P, i)
     /\ Value([cmp \in {parser__compare_versions(
                          [cost |-> cost, is_in_error |-> is_in_error, push_count |-> 0],
                          ErrorStatusOf(P, i))} |->
            cmp = "TakeRight" \/ (cmp = "PreferRight" /\ ts_stack_can_merge(P, i, v))])

\* The loop of parser__handle_error over the versions that the potential
\* reductions make; c is the parser struct and the version cur.
HandleErrorReduction(c, v, previous_version_count) ==
  Value([r \in {parser__do_potential_reductions(c.p, c.cur)} |->
      [p |-> r.p,
       cur |-> IF r.result
               THEN (IF c.cur = v THEN previous_version_count ELSE c.cur + 1)
               ELSE c.cur]])

RECURSIVE HandleErrorReductions(_, _, _)
HandleErrorReductions(c, v, previous_version_count) ==
  IF c.cur >= ts_stack_version_count(c.p) THEN c.p
  ELSE HandleErrorReductions(HandleErrorReduction(c, v, previous_version_count),
                             v, previous_version_count)

\* A variant of HandleErrorMerge that leaves the versions that the potential
\* reductions made (used to test the property of C20).
HandleErrorMerge_none(P, v, previous_version_count) == P

RECURSIVE HandleErrorMerge(_, _, _)
HandleErrorMerge(P, v, previous_version_count) ==
  IF ts_stack_version_count(P) <= previous_version_count THEN P
  ELSE HandleErrorMerge(
         ts_stack_force_merge(ts_stack_push(P, previous_version_count, NULL, FALSE, ERROR_STATE),
                              v, previous_version_count),
         v, previous_version_count)

parser__handle_error(P, v, lookahead_symbol) ==
  IF parser__better_version_exists(P, v, TRUE,
                                   ts_stack_error_cost(P, v) + ERROR_COST_PER_SKIPPED_TREE)
  THEN ts_stack_halt(P, v)
  ELSE Value([previous_version_count \in {ts_stack_version_count(P)} |->
       Value([P1 \in {HandleErrorReductions([p |-> P, cur |-> v], v, previous_version_count)} |->
       Value([P2 \in {ts_stack_push(P1, v, NULL, FALSE, ERROR_STATE)} |->
       Value([P3 \in {HandleErrorMerge(P2, v, previous_version_count)} |->
           ts_stack_record_summary(P3, v, MAX_SUMMARY_DEPTH)])])])])

\* A variant of parser__halt_parse whose filler leaf is empty (used to test
\* the property of C1).
parser__halt_parse_nofiller(P, inp) ==
  Value([filler \in {ts_tree_make_error(P, 0, 0, 0)} |->
  LET P1     == [filler.p EXCEPT !.trees[filler.tree].visible = FALSE]
      P2     == ts_tree_release(ts_stack_push(P1, 0, filler.tree, FALSE, 0), filler.tree)
  IN  Value([root \in {ts_tree_make_error_node(P2, << >>)} |->
  LET P3     == ts_tree_release(ts_stack_push(root.p, 0, root.tree, FALSE, 0), root.tree)
  IN  Value([eof \in {ts_tree_make_leaf(P3, ts_builtin_sym_end, 0, 0)} |->
      ts_tree_release(parser__accept(eof.p, 0, eof.tree), eof.tree)])])])

\* parser__halt_parse: the rest of the input becomes one error leaf, an
\* empty ERROR node follows it and the end of the input is accepted.
parser__halt_parse(P, inp) ==
  Value([filler \in {ts_tree_make_error(P, Len(inp) - ts_stack_top_position(P, 0), 0, 0)} |->
  LET P1     == [filler.p EXCEPT !.trees[filler.tree].visible = FALSE]
      P2     == ts_tree_release(ts_stack_push(P1, 0, filler.tree, FALSE, 0), filler.tree)
  IN  Value([root \in {ts_tree_make_error_node(P2, << >>)} |->
  LET P3     == ts_tree_release(ts_stack_push(root.p, 0, root.tree, FALSE, 0), root.tree)
  IN  Value([eof \in {ts_tree_make_leaf(P3, ts_builtin_sym_end, 0, 0)} |->
      ts_tree_release(parser__accept(eof.p, 0, eof.tree), eof.tree)])])])

\* The slices of the pop of parser__recover; c is [p, previous_version,
\* did_recover].
RECURSIVE RecoverSlices(_, _, _, _)
RecoverSlices(c, slices, j, entry) ==
  IF j > Len(slices) THEN c
  ELSE LET slice == slices[j]
           P     == c.p
       IN  IF slice.version = c.previous_version
           THEN RecoverSlices([c EXCEPT !.p = ts_tree_array_delete(P, slice.trees)],
                              slices, j + 1, entry)
           ELSE IF ts_stack_top_state(P, slice.version) # entry.state
           THEN RecoverSlices([c EXCEPT !.p = ts_stack_halt(ts_tree_array_delete(P, slice.trees),
                                                            slice.version)],
                              slices, j + 1, entry)
           ELSE Value([error_pop \in {ts_stack_pop_error(P, slice.version)} |->
                LET trees == IF error_pop.slices # << >>
                             THEN error_pop.slices[1].trees \o slice.trees ELSE slice.trees
                IN  Value([P1 \in {IF error_pop.slices # << >>
                                   THEN ts_stack_renumber_version(error_pop.p, error_pop.slices[1].version,
                                                                  slice.version)
                                   ELSE error_pop.p} |->
                Value([n \in {EssentialCount(P1.trees, trees, Len(trees))} |->
                Value([err \in {ts_tree_make_error_node(P1, SubSeq(trees, 1, n))} |->
                LET P2    == IF n > 0
                             THEN ts_tree_release(
                                    ts_stack_push([err.p EXCEPT !.trees[err.tree].extra = TRUE],
                                                  slice.version, err.tree, FALSE, entry.state),
                                    err.tree)
                             ELSE P1
                    P3    == PushTrees(P2, slice.version, trees, n + 1, entry.state)
                IN  RecoverSlices([p |-> P3, previous_version |-> slice.version,
                                   did_recover |-> TRUE],
                                  slices, j + 1, entry)])])])])

\* RecoverEntry going on to the next entry when a better version exists.
RecoverEntry_nobreak(c, v, la, entry) ==
  LET P == c.p
  IN  Value([depth \in {entry.depth + ts_stack_depth_since_error(P, v)} |->
      IF entry.state = ERROR_STATE THEN [c EXCEPT !.i = @ + 1]
      ELSE IF ts_language_actions(P.language, entry.state, P.trees[la].symbol) # << >>
      THEN Value([pop \in {ts_stack_pop_count(P, v, depth)} |->
           Value([r \in {RecoverSlices([p |-> pop.p, previous_version |-> STACK_VERSION_NONE,
                                        did_recover |-> FALSE], pop.slices, 1, entry)} |->
               [c EXCEPT !.p = r.p, !.did_recover = r.did_recover, !.break = TRUE]])])
      ELSE [c EXCEPT !.i = @ + 1]])

\* The body of the loop of parser__recover over the summary, for the entry
\* c.i; c is [p, did_recover], the index of the entry and whether the loop
\* is left.
RecoverEntry(c, v, la, entry) ==
  LET P == c.p
  IN  Value([depth \in {entry.depth + ts_stack_depth_since_error(P, v)} |->
      LET new_cost == depth * ERROR_COST_PER_SKIPPED_TREE +
                      (ts_stack_top_position(P, v) - entry.position) * ERROR_COST_PER_SKIPPED_CHAR
      IN  IF entry.state = ERROR_STATE THEN [c EXCEPT !.i = @ + 1]
          ELSE IF parser__better_version_exists(P, v, FALSE, new_cost)
          THEN [c EXCEPT !.break = TRUE]
          ELSE IF ts_language_actions(P.language, entry.state, P.trees[la].symbol) # << >>
          THEN Value([pop \in {ts_stack_pop_count(P, v, depth)} |->
               Value([r \in {RecoverSlices([p |-> pop.p, previous_version |-> STACK_VERSION_NONE,
                                            did_recover |-> FALSE], pop.slices, 1, entry)} |->
                   [c EXCEPT !.p = r.p, !.did_recover = r.did_recover, !.break = TRUE]])])
          ELSE [c EXCEPT !.i = @ + 1]])

\* The loop of parser__recover over the summary; the result is [p,
\* did_recover].
RECURSIVE RecoverLoop(_, _, _, _)
RecoverLoop(c, v, la, summary) ==
  IF c.break \/ c.i > Len(summary) THEN c
  ELSE RecoverLoop(RecoverEntry(c, v, la, summary[c.i]), v, la, summary)

RecoverSummary(P, v, la, summary) ==
  RecoverLoop([p |-> P, did_recover |-> FALSE, i |-> 1, break |-> FALSE], v, la, summary)

\* The versions made by the recovery that are halted, or that can be merged
\* with an earlier version, are removed.
RECURSIVE RecoverCleanup(_, _)
RecoverCleanup(P, i) ==
  IF i >= ts_stack_version_count(P) THEN P
  ELSE IF ts_stack_is_halted(P, i) THEN RecoverCleanup(ts_stack_remove_version(P, i), i)
  ELSE IF \E j \in 0 .. (i - 1) : ts_stack_can_merge(P, j, i)
  THEN RecoverCleanup(ts_stack_remove_version(P, i), i)
  ELSE RecoverCleanup(P, i + 1)

\* A variant of parser__recover that returns once a state of the summary
\* has been resumed.
parser__recover_nofallback(P, v, la) ==
  IF ~P.heads[v + 1].has_summary THEN Fault(P, "read of a null summary")
  ELSE
  LET previous_version_count == ts_stack_version_count(P)
  IN  Value([r \in {RecoverSummary(P, v, la, ts_stack_get_summary(P, v))} |->
  Value([P1 \in {RecoverCleanup(r.p, previous_version_count)} |->
  Value([acts \in {ts_language_actions(P.language, 1, P1.trees[la].symbol)} |->
  LET extra == acts # << >> /\ acts[Len(acts)].type = "Shift" /\ acts[Len(acts)].extra
  IN  IF r.did_recover /\ ts_stack_version_count(P1) > MAX_VERSION_COUNT
      THEN ts_stack_halt(P1, v)
      ELSE IF r.did_recover THEN P1
      ELSE IF P1.trees[la].symbol = ts_builtin_sym_end
      THEN Value([parent \in {ts_tree_make_error_node(P1, << >>)} |->
               parser__accept(
                 ts_tree_release(ts_stack_push(parent.p, v, parent.tree, FALSE, 1), parent.tree),
                 v, la)])
      ELSE Value([P2 \in {parser__shift(P1, v, ERROR_STATE, la, extra)} |->
               IF parser__better_version_exists(P2, v, TRUE, ts_stack_error_cost(P2, v))
               THEN ts_stack_halt(P2, v)
               ELSE P2])])])])

parser__recover(P, v, la) ==
  IF ~P.heads[v + 1].has_summary THEN Fault(P, "read of a null summary")
  ELSE
  LET previous_version_count == ts_stack_version_count(P)
  IN  Value([r \in {RecoverSummary(P, v, la, ts_stack_get_summary(P, v))} |->
  Value([P1 \in {RecoverCleanup(r.p, previous_version_count)} |->
  Value([acts \in {ts_language_actions(P.language, 1, P1.trees[la].symbol)} |->
  LET extra == acts # << >> /\ acts[Len(acts)].type = "Shift" /\ acts[Len(acts)].extra
  IN  IF r.did_recover /\ ts_stack_version_count(P1) > MAX_VERSION_COUNT
      THEN ts_stack_halt(P1, v)
      ELSE IF P1.trees[la].symbol = ts_builtin_sym_end
      THEN Value([parent \in {ts_tree_make_error_node(P1, << >>)} |->
               parser__accept(
                 ts_tree_release(ts_stack_push(parent.p, v, parent.tree, FALSE, 1), parent.tree),
                 v, la)])
      ELSE Value([P2 \in {parser__shift(P1, v, ERROR_STATE, la, extra)} |->
               IF parser__better_version_exists(P2, v, TRUE, ts_stack_error_cost(P2, v))
               THEN ts_stack_halt(P2, v)
               ELSE P2])])])])

\* UINT_MAX of <limits.h>: 65535 * 2^16 + 65535 = 4294967295.
UINT_MAX == Unsigned32(65535, 65535)

\* The first loop of parser__condense_stack: halted versions are removed
\* and every version is compared with the versions before it.  c is [p,
\* min_error_cost, all_versions_have_error] and the place in the loops: the
\* version i of the outer loop, and the version j and the status_i of the
\* inner loop (j is -1 outside the inner loop).
\* The body of the outer loop, up to the inner loop.
CondenseOuter(c) ==
  IF ts_stack_is_halted(c.p, c.i)
  THEN [c EXCEPT !.p = ts_stack_remove_version(@, c.i)]
  ELSE Value([status_i \in {ErrorStatusOf(c.p, c.i)} |->
           [c EXCEPT !.all_versions_have_error = @ /\ status_i.is_in_error,
                     !.min_error_cost = IF UnsignedLess(status_i.cost, @) THEN status_i.cost ELSE @,
                     !.j = 0,
                     !.status_i = status_i]])

\* The test and the body of the inner loop.
CondenseInner(c) ==
  LET P == c.p
      i == c.i
      j == c.j
  IN  IF j >= i THEN [c EXCEPT !.i = i + 1, !.j = -1]
      ELSE Value([can_merge \in {ts_stack_can_merge(P, j, i)} |->
           Value([cmp \in {parser__compare_versions(ErrorStatusOf(P, j), c.status_i)} |->
               CASE cmp = "TakeLeft" ->
                      [c EXCEPT !.p = ts_stack_remove_version(P, i), !.j = -1]
                 [] cmp = "PreferLeft" ->
                      IF can_merge
                      THEN [c EXCEPT !.p = ts_stack_remove_version(P, i), !.j = -1]
                      ELSE [c EXCEPT !.j = j + 1]
                 [] cmp = "None" ->
                      IF can_merge
                      THEN [c EXCEPT !.p = ts_stack_force_merge(P, j, i), !.j = -1]
                      ELSE [c EXCEPT !.j = j + 1]
                 [] cmp = "PreferRight" ->
                      IF can_merge
                      THEN [c EXCEPT !.p = ts_stack_remove_version(P, j), !.i = i - 1]
                      ELSE [c EXCEPT !.p = ts_stack_swap_versions(P, i, j), !.i = i + 1, !.j = -1]
                 [] cmp = "TakeRight" ->
                      [c EXCEPT !.p = ts_stack_remove_version(P, j), !.i = i - 1]])])

RECURSIVE CondenseLoop(_)
CondenseLoop(c) ==
  IF c.j < 0 /\ c.i >= ts_stack_version_count(c.p) THEN c
  ELSE CondenseLoop(IF c.j < 0 THEN CondenseOuter(c) ELSE CondenseInner(c))

CondenseCompare(P) ==
  CondenseLoop([p |-> P, min_error_cost |-> UINT_MAX, all_versions_have_error |-> TRUE,
                i |-> 0, j |-> -1,
                status_i |-> [cost |-> 0, is_in_error |-> FALSE, push_count |-> 0]])

\* A variant of the second loop that removes nothing (used to test the
\* property of C3).
CondenseTruncate_none(P) == P

\* The second loop: the versions from MAX_VERSION_COUNT on are removed.
RECURSIVE CondenseTruncate(_)
CondenseTruncate(P) ==
  IF ts_stack_version_count(P) > MAX_VERSION_COUNT
  THEN CondenseTruncate(ts_stack_remove_version(P, MAX_VERSION_COUNT))
  ELSE P

\* A variant of parser__condense_stack that does not report that every
\* version is in error (used to test the property of C6).
parser__condense_stack_nohalt(P) ==
  Value([c \in {CondenseCompare(P)} |->
  Value([P1 \in {CondenseTruncate(c.p)} |->
      [p |-> P1,
       should_halt |->
         (P1.finished_tree # NULL /\ UnsignedLess(P1.trees[P1.finished_tree].error_cost, c.min_error_cost))]])])

\* The parser struct after the call and the value returned.
parser__condense_stack(P) ==
  Value([c \in {CondenseCompare(P)} |->
  Value([P1 \in {CondenseTruncate(c.p)} |->
      [p |-> P1,
       should_halt |->
         (c.all_versions_have_error /\ ts_stack_version_count(P1) > 0) \/
         (P1.finished_tree # NULL /\ UnsignedLess(P1.trees[P1.finished_tree].error_cost, c.min_error_cost))]])])

\* Line 715 reads self->language->external_scanner: with no language set
\* it is a read through a null pointer.
parser__start(P, previous_tree) ==
  IF P.language = NULL THEN Fault(P, "read of a null language")
  ELSE
  [ts_stack_clear(P) EXCEPT !.reusable_node = reusable_node_new(previous_tree),
                            !.finished_tree = NULL,
                            !.accepted = << >>, !.chosen = 0,
                            !.external_scanner_payload = external_scanner_deserialize(<< >>)]

\* parser_set_language(self, language): the payload of the scanner is
\* destroyed and one is created for the language, if there is one.
parser_set_language(P, language) ==
  [P EXCEPT !.external_scanner_payload =
               IF language # NULL THEN external_scanner_create ELSE NULL,
            !.language = language]

\* The parser after parser_init and parser_set_language.
NewParser(language) == parser_set_language(ParserZero, language)

\* parser_destroy: the stack and the pool are deleted, with every tree of
\* the pool, and the language is unset.
parser_destroy(P) ==
  Value([P1 \in {ts_stack_delete(P)} |->
      parser_set_language([P1 EXCEPT !.tree_pool = ts_tree_pool_delete(@),
                                     !.trees = << >>], NULL)])

(***************************************************************************)
(* parser__advance.  The call is modelled one iteration of its for (;;)    *)
(* loop at a time; c holds the parser struct and the locals: the cursor    *)
(* reusable_node, state, lookahead, table_entry, last_reduction_version,   *)
(* and whether the function has returned.                                  *)
(***************************************************************************)
TableEntryZero == [actions |-> << >>, is_reusable |-> FALSE, depends_on_lookahead |-> FALSE]

AdvanceZero == [state |-> 0, lookahead |-> NULL, table_entry |-> TableEntryZero]

\* The loop that breaks the lookahead down before parser__recover.
RECURSIVE RecoverBreakdown(_)
RecoverBreakdown(c) ==
  IF c.p.trees[c.lookahead].children = << >> THEN c
  ELSE Value([b \in {parser__breakdown_lookahead(c.p, c.lookahead, c.state, c.reusable_node)} |->
           IF b.lookahead = c.lookahead
           THEN [c EXCEPT !.p = Fault(@, "parser__advance never leaves the breakdown loop"),
                          !.returned = TRUE]
           ELSE RecoverBreakdown([c EXCEPT !.p = b.p, !.lookahead = b.lookahead,
                                           !.reusable_node = b.reusable_node])])

PopIfLookahead(c) ==
  IF c.lookahead = c.reusable_node.tree
  THEN [c EXCEPT !.reusable_node = reusable_node_pop(c.p, @)]
  ELSE c

\* A variant of the loop over the actions that remembers the version of the
\* first reduction.
RECURSIVE AdvanceActions_firstreduce(_, _, _)
AdvanceActions_firstreduce(c, v, i) ==
  IF i > Len(c.table_entry.actions) THEN c
  ELSE LET action == c.table_entry.actions[i]
       IN  CASE action.type = "Shift" ->
                  Value([b \in {IF c.p.trees[c.lookahead].children # << >>
                                THEN parser__breakdown_lookahead(c.p, c.lookahead, c.state, c.reusable_node)
                                ELSE [p |-> c.p, lookahead |-> c.lookahead,
                                      reusable_node |-> c.reusable_node]} |->
                  LET next_state ==
                            IF c.p.trees[c.lookahead].children # << >>
                            THEN ts_language_next_state(c.p.language, c.state, b.p.trees[b.lookahead].symbol)
                            ELSE IF action.extra THEN c.state ELSE action.state
                      c1 == [c EXCEPT !.p = parser__shift(b.p, v, next_state, b.lookahead, action.extra),
                                      !.lookahead = b.lookahead,
                                      !.reusable_node = b.reusable_node]
                  IN  Value([c2 \in {PopIfLookahead(c1)} |->
                      [c2 EXCEPT !.p = ts_tree_release(@, c2.lookahead), !.returned = TRUE]])])
             [] action.type = "Reduce" ->
                  Value([r \in {parser__reduce(c.p, v, action)} |->
                      IF r.slices = << >>
                      THEN [c EXCEPT !.p = Fault(r.p, "read of the front of an empty array"),
                                     !.returned = TRUE]
                      ELSE AdvanceActions_firstreduce([c EXCEPT !.p = r.p,
                                                    !.last_reduction_version =
                                                       IF @ = STACK_VERSION_NONE
                                                       THEN r.slices[1].version ELSE @],
                                          v, i + 1)])
             [] action.type = "Accept" ->
                  [c EXCEPT !.p = ts_tree_release(parser__accept(c.p, v, c.lookahead), c.lookahead),
                            !.returned = TRUE]
             [] action.type = "Recover" ->
                  Value([c1 \in {RecoverBreakdown(c)} |->
                  Value([c2 \in {PopIfLookahead([c1 EXCEPT !.p = parser__recover(@, v, c1.lookahead)])} |->
                      IF c1.returned THEN c1
                      ELSE [c2 EXCEPT !.p = ts_tree_release(@, c2.lookahead), !.returned = TRUE]])])

\* A variant of the loop over the actions whose shift takes the state of
\* the action also when the action is marked extra.
RECURSIVE AdvanceActions_extrastate(_, _, _)
AdvanceActions_extrastate(c, v, i) ==
  IF i > Len(c.table_entry.actions) THEN c
  ELSE LET action == c.table_entry.actions[i]
       IN  CASE action.type = "Shift" ->
                  Value([b \in {IF c.p.trees[c.lookahead].children # << >>
                                THEN parser__breakdown_lookahead(c.p, c.lookahead, c.state, c.reusable_node)
                                ELSE [p |-> c.p, lookahead |-> c.lookahead,
                                      reusable_node |-> c.reusable_node]} |->
                  LET next_state ==
                            IF c.p.trees[c.lookahead].children # << >>
                            THEN ts_language_next_state(c.p.language, c.state, b.p.trees[b.lookahead].symbol)
                            ELSE action.state
                      c1 == [c EXCEPT !.p = parser__shift(b.p, v, next_state, b.lookahead, action.extra),
                                      !.lookahead = b.lookahead,
                                      !.reusable_node = b.reusable_node]
                  IN  Value([c2 \in {PopIfLookahead(c1)} |->
                      [c2 EXCEPT !.p = ts_tree_release(@, c2.lookahead), !.returned = TRUE]])])
             [] action.type = "Reduce" ->
                  Value([r \in {parser__reduce(c.p, v, action)} |->
                      IF r.slices = << >>
                      THEN [c EXCEPT !.p = Fault(r.p, "read of the front of an empty array"),
                                     !.returned = TRUE]
                      ELSE AdvanceActions_extrastate([c EXCEPT !.p = r.p,
                                                    !.last_reduction_version = r.slices[1].version],
                                          v, i + 1)])
             [] action.type = "Accept" ->
                  [c EXCEPT !.p = ts_tree_release(parser__accept(c.p, v, c.lookahead), c.lookahead),
                            !.returned = TRUE]
             [] action.type = "Recover" ->
                  Value([c1 \in {RecoverBreakdown(c)} |->
                  Value([c2 \in {PopIfLookahead([c1 EXCEPT !.p = parser__recover(@, v, c1.lookahead)])} |->
                      IF c1.returned THEN c1
                      ELSE [c2 EXCEPT !.p = ts_tree_release(@, c2.lookahead), !.returned = TRUE]])])

\* The for loop over the actions of the table entry.
RECURSIVE AdvanceActions(_, _, _)
AdvanceActions(c, v, i) ==
  IF i > Len(c.table_entry.actions) THEN c
  ELSE LET action == c.table_entry.actions[i]
       IN  CASE action.type = "Shift" ->
                  Value([b \in {IF c.p.trees[c.lookahead].children # << >>
                                THEN parser__breakdown_lookahead(c.p, c.lookahead, c.state, c.reusable_node)
                                ELSE [p |-> c.p, lookahead |-> c.lookahead,
                                      reusable_node |-> c.reusable_node]} |->
                  LET next_state ==
                            IF c.p.trees[c.lookahead].children # << >>
                            THEN ts_language_next_state(c.p.language, c.state, b.p.trees[b.lookahead].symbol)
                            ELSE IF action.extra THEN c.state ELSE action.state
                      c1 == [c EXCEPT !.p = parser__shift(b.p, v, next_state, b.lookahead, action.extra),
                                      !.lookahead = b.lookahead,
                                      !.reusable_node = b.reusable_node]
                  IN  Value([c2 \in {PopIfLookahead(c1)} |->
                      [c2 EXCEPT !.p = ts_tree_release(@, c2.lookahead), !.returned = TRUE]])])
             [] action.type = "Reduce" ->
                  Value([r \in {parser__reduce(c.p, v, action)} |->
                      IF r.slices = << >>
                      THEN [c EXCEPT !.p = Fault(r.p, "read of the front of an empty array"),
                                     !.returned = TRUE]
                      ELSE AdvanceActions([c EXCEPT !.p = r.p,
                                                    !.last_reduction_version = r.slices[1].version],
                                          v, i + 1)])
             [] action.type = "Accept" ->
                  [c EXCEPT !.p = ts_tree_release(parser__accept(c.p, v, c.lookahead), c.lookahead),
                            !.returned = TRUE]
             [] action.type = "Recover" ->
                  Value([c1 \in {RecoverBreakdown(c)} |->
                  Value([c2 \in {PopIfLookahead([c1 EXCEPT !.p = parser__recover(@, v, c1.lookahead)])} |->
                      IF c1.returned THEN c1
                      ELSE [c2 EXCEPT !.p = ts_tree_release(@, c2.lookahead), !.returned = TRUE]])])

\* A variant of the iteration that goes to the next iteration without the
\* call of parser__handle_error.
AdvanceIteration_nohandle(c0, inp, v) ==
  Value([c \in {AdvanceActions([c0 EXCEPT !.last_reduction_version = STACK_VERSION_NONE], v, 1)} |->
  LET retable(x) == [x EXCEPT
                       !.state = ts_stack_top_state(x.p, v),
                       !.table_entry = ts_language_table_entry(x.p.language, 
                                         ts_stack_top_state(x.p, v),
                                         x.p.trees[x.lookahead].first_leaf.symbol)]
  IN  IF c.returned THEN c
      ELSE IF c.last_reduction_version # STACK_VERSION_NONE
      THEN retable([c EXCEPT !.p = ts_stack_renumber_version(@, c.last_reduction_version, v)])
      ELSE Value([bd \in {parser__breakdown_top_of_stack(c.p, v)} |->
               IF bd.did_break_down THEN retable([c EXCEPT !.p = bd.p])
               ELSE IF c.state = ERROR_STATE
               THEN [c EXCEPT !.p = ts_tree_release(
                                      ts_stack_push(bd.p, v, c.lookahead, FALSE, ERROR_STATE),
                                      c.lookahead),
                              !.returned = TRUE]
               ELSE retable([c EXCEPT !.p = bd.p])])])

\* One iteration of the for (;;) loop.
AdvanceIteration(c0, inp, v) ==
  Value([c \in {AdvanceActions([c0 EXCEPT !.last_reduction_version = STACK_VERSION_NONE], v, 1)} |->
  LET retable(x) == [x EXCEPT
                       !.state = ts_stack_top_state(x.p, v),
                       !.table_entry = ts_language_table_entry(x.p.language, 
                                         ts_stack_top_state(x.p, v),
                                         x.p.trees[x.lookahead].first_leaf.symbol)]
  IN  IF c.returned THEN c
      ELSE IF c.last_reduction_version # STACK_VERSION_NONE
      THEN retable([c EXCEPT !.p = ts_stack_renumber_version(@, c.last_reduction_version, v)])
      ELSE Value([bd \in {parser__breakdown_top_of_stack(c.p, v)} |->
               IF bd.did_break_down THEN retable([c EXCEPT !.p = bd.p])
               ELSE IF c.state = ERROR_STATE
               THEN [c EXCEPT !.p = ts_tree_release(
                                      ts_stack_push(bd.p, v, c.lookahead, FALSE, ERROR_STATE),
                                      c.lookahead),
                              !.returned = TRUE]
               ELSE Value([P1 \in {parser__handle_error(bd.p, v, bd.p.trees[c.lookahead].first_leaf.symbol)} |->
                        IF ts_stack_is_halted(P1, v)
                        THEN [c EXCEPT !.p = ts_tree_release(P1, c.lookahead), !.returned = TRUE]
                        ELSE IF P1.trees[c.lookahead].size = 0
                        THEN Value([P2 \in {ts_tree_release(P1, c.lookahead)} |->
                             Value([g \in {parser__get_lookahead(P2, inp, v, ts_stack_top_state(P2, v),
                                                                 c.reusable_node)} |->
                                 retable([c EXCEPT !.p = g.p, !.reusable_node = g.reusable_node,
                                                   !.lookahead = g.lookahead])])])
                        ELSE retable([c EXCEPT !.p = P1])])])])

\* The start of parser__advance, up to the for (;;) loop.
AdvanceEnter(P, inp, v, rn) ==
  Value([g \in {parser__get_lookahead(P, inp, v, ts_stack_top_state(P, v), rn)} |->
      [p |-> g.p, reusable_node |-> g.reusable_node, state |-> g.state,
       lookahead |-> g.lookahead, table_entry |-> g.table_entry,
       last_reduction_version |-> STACK_VERSION_NONE, returned |-> FALSE]])

(***************************************************************************)
(* parser_parse and its caller.  The caller owns one document: it parses   *)
(* the input, with the tree of the previous parse or with none, keeps the  *)
(* tree that is returned and releases the one it had.                      *)
(***************************************************************************)
MaxCalls == 2
MaxReparseLen == 2

ParseZero == [version |-> 0, position |-> 0, last_position |-> 0,
              reusable_node |-> ReusableNodeZero]

\* What ts_tree_eq compares of a tree.
RECURSIVE TreeShape(_, _)
TreeShape(T, t) ==
  IF T[t].symbol = ts_builtin_sym_error
  THEN [symbol |-> T[t].symbol, visible |-> T[t].visible, named |-> T[t].named,
        padding |-> T[t].padding, size |-> T[t].size,
        lookahead_char |-> T[t].lookahead_char,
        visible_child_count |-> 0, named_child_count |-> 0, children |-> << >>]
  ELSE [symbol |-> T[t].symbol, visible |-> T[t].visible, named |-> T[t].named,
        padding |-> T[t].padding, size |-> T[t].size,
        lookahead_char |-> 0,
        visible_child_count |-> T[t].visible_child_count,
        named_child_count |-> T[t].named_child_count,
        children |-> [i \in 1 .. Len(T[t].children) |-> TreeShape(T, T[t].children[i])]]

\* The least and the largest error cost of the versions that are not halted
\* (-1 if there is none).
LiveVersions(P) == {i \in 0 .. (ts_stack_version_count(P) - 1) : ~ts_stack_is_halted(P, i)}
MinErrorCost(P) ==
  IF LiveVersions(P) = {} THEN -1
  ELSE Min({ts_stack_error_cost(P, i) : i \in LiveVersions(P)})
LargestErrorCost(P) ==
  IF LiveVersions(P) = {} THEN -1
  ELSE Max({ts_stack_error_cost(P, i) : i \in LiveVersions(P)})

ObsZero ==
  [max_calls |-> 0, calls |-> 0, tree |-> NULL, result |-> NULL,
   shape |-> [h \in BOOLEAN |-> << >>], last_shape |-> << >>,
   rounds |-> 0, versions_in |-> 0, versions_compare |-> 0, versions_out |-> 0,
   min_in |-> -1, max_in |-> -1, min_compare |-> -1, min_out |-> -1, prev_min_out |-> -1,
   accepted |-> FALSE, all_in_error |-> FALSE, halt_position |-> -1,
   pool_result |-> -1, pool_was_live |-> FALSE, pool_entry_full |-> FALSE, live |-> {},
   select |-> [left |-> NULL, right |-> NULL, result |-> FALSE],
   compare |-> << >>, should_halt |-> FALSE, better |-> << >>,
   plan |-> << >>, started_in_ambiguity |-> FALSE]

InitParser(builds, inputs, max_calls) ==
  /\ build \in builds
  /\ parser = ParserZero
  /\ input \in inputs
  /\ old_tree = NULL
  /\ halt_on_error = FALSE
  /\ pc = "idle"
  /\ parse = ParseZero
  /\ advance = AdvanceZero
  /\ obs = [ObsZero EXCEPT !.max_calls = max_calls, !.plan = <<input>>]

\* What is recorded of a call at its entry.
CallObs ==
  [obs EXCEPT !.calls = @ + 1, !.result = NULL, !.rounds = 0,
              !.versions_in = 0, !.versions_compare = 0, !.versions_out = 0,
              !.min_in = -1, !.max_in = -1,
              !.min_compare = -1, !.min_out = -1, !.prev_min_out = -1,
              !.accepted = FALSE, !.all_in_error = FALSE, !.halt_position = -1,
              !.started_in_ambiguity = parser.in_ambiguity]

\* The caller calls parser_parse: parser__start and the locals.
ParseCall ==
  /\ pc = "idle"
  /\ parser.fault = ""
  /\ obs.calls < obs.max_calls
  /\ \E hoe \in BOOLEAN, previous \in {NULL, obs.tree} :
        /\ halt_on_error' = hoe
        /\ old_tree' = previous
        /\ parser' = parser__start(parser, previous)
  /\ parse' = ParseZero
  /\ advance' = AdvanceZero
  /\ pc' = "for"
  /\ obs' = CallObs
  /\ UNCHANGED <<build, input>>

\* A variant of the test of the while loop that leaves the loop only at a
\* position beyond last_position.
WhileLoop_position(prs) ==
  LET v   == prs.version
  IN  \E pos \in {ts_stack_top_position(parser, v)} :
      IF ts_stack_is_halted(parser, v)
      THEN /\ parse' = [prs EXCEPT !.version = v + 1]
           /\ pc' = "for"
           /\ UNCHANGED <<parser, advance>>
      ELSE IF pos > prs.last_position
      THEN /\ parse' = [prs EXCEPT !.position = pos, !.last_position = pos, !.version = v + 1]
           /\ pc' = "for"
           /\ UNCHANGED <<parser, advance>>
      ELSE \E c \in {AdvanceEnter(parser, input, v, prs.reusable_node)} :
               /\ parser' = c.p
               /\ parse' = [prs EXCEPT !.position = pos, !.reusable_node = c.reusable_node]
               /\ advance' = [state |-> c.state, lookahead |-> c.lookahead,
                              table_entry |-> c.table_entry]
               /\ pc' = "advance"

\* A variant of the test of the while loop that does not ask whether the
\* version is halted.
WhileLoop_halted(prs) ==
  LET v   == prs.version
  IN  \E pos \in {ts_stack_top_position(parser, v)} :
      IF pos > prs.last_position \/ (v > 0 /\ pos = prs.last_position)
      THEN /\ parse' = [prs EXCEPT !.position = pos, !.last_position = pos, !.version = v + 1]
           /\ pc' = "for"
           /\ UNCHANGED <<parser, advance>>
      ELSE \E c \in {AdvanceEnter(parser, input, v, prs.reusable_node)} :
               /\ parser' = c.p
               /\ parse' = [prs EXCEPT !.position = pos, !.reusable_node = c.reusable_node]
               /\ advance' = [state |-> c.state, lookahead |-> c.lookahead,
                              table_entry |-> c.table_entry]
               /\ pc' = "advance"

\* The test of the while loop for the version of prs, and what follows it:
\* either the next iteration of the for loop or the start of
\* parser__advance.
WhileLoop(prs) ==
  LET v   == prs.version
  IN  \E pos \in {ts_stack_top_position(parser, v)} :
      IF ts_stack_is_halted(parser, v)
      THEN /\ parse' = [prs EXCEPT !.version = v + 1]
           /\ pc' = "for"
           /\ UNCHANGED <<parser, advance>>
      ELSE IF pos > prs.last_position \/ (v > 0 /\ pos = prs.last_position)
      THEN /\ parse' = [prs EXCEPT !.position = pos, !.last_position = pos, !.version = v + 1]
           /\ pc' = "for"
           /\ UNCHANGED <<parser, advance>>
      ELSE \E c \in {AdvanceEnter(parser, input, v, prs.reusable_node)} :
               /\ parser' = c.p
               /\ parse' = [prs EXCEPT !.position = pos, !.reusable_node = c.reusable_node]
               /\ advance' = [state |-> c.state, lookahead |-> c.lookahead,
                              table_entry |-> c.table_entry]
               /\ pc' = "advance"

\* The test of the for loop over the versions and, if it holds, the start
\* of its body.
ForLoop ==
  /\ pc = "for"
  /\ parser.fault = ""
  /\ IF parse.version < ts_stack_version_count(parser)
     THEN WhileLoop([parse EXCEPT !.reusable_node = parser.reusable_node])
     ELSE pc' = "condense" /\ UNCHANGED <<parser, parse, advance>>
  /\ UNCHANGED <<build, call_vars, obs>>

\* parser__advance has returned: the while loop goes on.
AdvanceReturn ==
  /\ pc = "while"
  /\ parser.fault = ""
  /\ WhileLoop(parse)
  /\ UNCHANGED <<build, call_vars, obs>>

\* One iteration of the for (;;) loop of parser__advance.
AdvanceLoop ==
  /\ pc = "advance"
  /\ parser.fault = ""
  /\ \E c \in {AdvanceIteration(
                 [p |-> parser, reusable_node |-> parse.reusable_node, state |-> advance.state,
                  lookahead |-> advance.lookahead, table_entry |-> advance.table_entry,
                  last_reduction_version |-> STACK_VERSION_NONE, returned |-> FALSE],
                 input, parse.version)} :
         /\ parser' = c.p
         /\ parse' = [parse EXCEPT !.reusable_node = c.reusable_node]
         /\ advance' = IF c.returned THEN AdvanceZero
                       ELSE [state |-> c.state, lookahead |-> c.lookahead,
                             table_entry |-> c.table_entry]
         /\ pc' = IF c.returned THEN "while" ELSE "advance"
  /\ UNCHANGED <<build, call_vars, obs>>

\* The end of a round: parser__condense_stack, parser__halt_parse if the
\* parse is given up, and the test of the do-while loop.
RoundEnd ==
  /\ pc = "condense"
  /\ parser.fault = ""
  /\ LET P0   == [parser EXCEPT !.reusable_node = parse.reusable_node]
     IN  \E cmp \in {CondenseCompare(P0)} :
     \E r \in {parser__condense_stack(P0)} :
     LET quit == r.should_halt /\ r.p.finished_tree = NULL /\ halt_on_error
         stop == r.should_halt /\ (r.p.finished_tree # NULL \/ halt_on_error)
     IN  /\ parser' = IF quit THEN parser__halt_parse(r.p, input)
                      ELSE IF stop THEN r.p
                      ELSE [r.p EXCEPT !.in_ambiguity = parse.version > 1]
         /\ pc' = IF stop \/ parse.version = 0 THEN "finish" ELSE "for"
         /\ parse' = [parse EXCEPT !.version = IF stop THEN @ ELSE 0]
         /\ obs' = [obs EXCEPT
                      !.rounds = IF @ < 2 THEN @ + 1 ELSE @,
                      !.versions_in = ts_stack_version_count(P0),
                      !.versions_compare = ts_stack_version_count(cmp.p),
                      !.versions_out = ts_stack_version_count(r.p),
                      !.min_in = MinErrorCost(P0),
                      !.max_in = LargestErrorCost(P0),
                      !.min_compare = MinErrorCost(cmp.p),
                      !.min_out = MinErrorCost(r.p),
                      !.prev_min_out = obs.min_out,
                      !.accepted = r.p.finished_tree # NULL,
                      !.all_in_error =
                         /\ ts_stack_version_count(r.p) > 0
                         /\ \A i \in 0 .. (ts_stack_version_count(r.p) - 1) :
                               ts_stack_top_state(r.p, i) = ERROR_STATE,
                      !.halt_position = IF quit THEN ts_stack_top_position(r.p, 0) ELSE -1]
  /\ UNCHANGED <<build, call_vars, advance>>

\* The end of parser_parse: the tree is returned.
Finish ==
  /\ pc = "finish"
  /\ parser.fault = ""
  /\ \E P1 \in {parser__set_cached_token(ts_stack_clear(parser), 0, NULL, NULL)} :
     LET P2 == IF P1.finished_tree = NULL
               THEN Fault(P1, "ts_tree_assign_parents of a null tree")
               ELSE ts_tree_assign_parents(P1, P1.finished_tree)
     IN  \E sh \in {IF P1.finished_tree = NULL THEN << >>
                    ELSE <<TreeShape(P1.trees, P1.finished_tree)>>} :
         /\ parser' = P2
         /\ obs' = [obs EXCEPT
                      !.result = P1.finished_tree,
                      !.last_shape = sh,
                      !.shape[halt_on_error] = IF obs.calls = 1 THEN sh ELSE @]
  /\ pc' = "returned"
  /\ parse' = ParseZero
  /\ advance' = AdvanceZero
  /\ UNCHANGED <<build, call_vars>>

\* The caller makes the returned tree the tree of its document and
\* releases the tree the document had.
KeepResult ==
  /\ pc = "returned"
  /\ parser.fault = ""
  /\ parser' = IF obs.tree # NULL THEN ts_tree_release(parser, obs.tree) ELSE parser
  /\ obs' = [obs EXCEPT !.tree = obs.result, !.result = NULL]
  /\ pc' = "idle"
  /\ UNCHANGED <<build, call_vars, parse, advance>>

\* The caller releases the tree of its document.
DropTree ==
  /\ pc = "idle"
  /\ parser.fault = ""
  /\ obs.tree # NULL
  /\ parser' = ts_tree_release(parser, obs.tree)
  /\ obs' = [obs EXCEPT !.tree = NULL]
  /\ UNCHANGED <<build, call_vars, pc, parse, advance>>

\* The caller sets the language of the parser, or unsets it, before a
\* parse.
SetLanguage ==
  /\ pc = "idle"
  /\ parser.fault = ""
  /\ \E language \in {NULL, TheLanguage} :
        parser' = parser_set_language(parser, language)
  /\ UNCHANGED <<build, call_vars, pc, parse, advance, obs>>

\* The caller destroys the parser; the tree it holds, if any, is freed with
\* the pool.
Destroy ==
  /\ pc = "idle"
  /\ parser.fault = ""
  /\ parser' = parser_destroy(parser)
  /\ pc' = "destroyed"
  /\ UNCHANGED <<build, call_vars, parse, advance, obs>>

Next ==
  \/ ParseCall
  \/ ForLoop
  \/ AdvanceReturn
  \/ AdvanceLoop
  \/ RoundEnd
  \/ Finish
  \/ KeepResult
  \/ DropTree
  \/ SetLanguage
  \/ Destroy

ReparseInputs == UNION {[1 .. n -> Chars] : n \in 0 .. MaxReparseLen}

\* The two builds differ in a shift by INT_WIDTH or more only, which
\* ts_tree_pool_allocate never reaches: the single parses and the pool are
\* explored under both, the sequences of parses under one.
InitParse == InitParser(Builds, Inputs, 1)
InitReparse == InitParser({"wrap"}, ReparseInputs, MaxCalls)

\* The caller parses another document without a previous tree: the inputs
\* of obs.plan are parsed one after the other.
ParseAgain ==
  /\ pc = "idle"
  /\ parser.fault = ""
  /\ obs.calls < Len(obs.plan)
  /\ halt_on_error' \in BOOLEAN
  /\ input' = obs.plan[obs.calls + 1]
  /\ old_tree' = NULL
  /\ parser' = parser__start(parser, NULL)
  /\ parse' = ParseZero
  /\ advance' = AdvanceZero
  /\ pc' = "for"
  /\ obs' = CallObs
  /\ UNCHANGED build

AgainNext ==
  \/ ParseAgain
  \/ ForLoop
  \/ AdvanceReturn
  \/ AdvanceLoop
  \/ RoundEnd
  \/ Finish
  \/ KeepResult
  \/ SetLanguage
  \/ Destroy

\* The inputs parsed between the two parses of an input: the empty one
\* (its only token is the end of the input, at byte 0), one that leaves the
\* parser in an ambiguity and one that ends in an error.
OtherInputs == {<< >>, <<CH_a, CH_b>>, <<CH_b>>}

InitAgain ==
  /\ build = "wrap"
  /\ parser = ParserZero
  /\ input \in ReparseInputs
  /\ old_tree = NULL
  /\ halt_on_error = FALSE
  /\ pc = "idle"
  /\ parse = ParseZero
  /\ advance = AdvanceZero
  /\ \E other \in OtherInputs : obs = [ObsZero EXCEPT !.plan = <<input, other, input>>]

\* One parse of every input by a new parser.
SpecParse == InitParse /\ [][Next]_vars

\* Up to MaxCalls parses of an input by the same parser.
SpecReparse == InitReparse /\ [][Next]_vars

\* An input is parsed, then another input, then the first input again, each
\* without a previous tree.
SpecAgain == InitAgain /\ [][AgainNext]_vars

(***************************************************************************)
(* The pool alone: any sequence of ts_tree_pool_allocate and               *)
(* ts_tree_pool_free calls that frees only trees that are allocated, and   *)
(* ts_tree_pool_delete followed by ts_tree_pool_init.                      *)
(* obs.live is the set of the trees the caller holds; obs.pool_result is   *)
(* what the last allocate returned (-1 before the first call).             *)
(***************************************************************************)
\* The slots whose trees the caller may free (the first and the last slot a
\* slab hands out).
FreeSlots == {0, 31}

PoolInit ==
  /\ build \in Builds
  /\ parser = ParserZero
  /\ input = << >>
  /\ old_tree = NULL
  /\ halt_on_error = FALSE
  /\ pc = "pool"
  /\ parse = ParseZero
  /\ advance = AdvanceZero
  /\ obs = ObsZero

PoolAllocate ==
  /\ pc = "pool"
  /\ LET pool == parser.tree_pool
     IN  \E r \in {ts_tree_pool_allocate(pool, build)} :
         /\ Len(r.pool.slabs) <= MaxSlabs
         /\ parser' = [parser EXCEPT !.tree_pool = r.pool]
         /\ obs' = [obs EXCEPT
                      !.pool_result = r.tree,
                      !.pool_was_live = r.tree \in obs.live,
                      !.pool_entry_full =
                         tree_pool_slab__is_full(
                           pool.slabs[pool.first_available_slab_index + 1]),
                      !.live = IF r.tree = NULL THEN @ ELSE @ \cup {r.tree}]
  /\ UNCHANGED <<build, call_vars, pc, parse, advance>>

PoolFree ==
  /\ pc = "pool"
  /\ \E tree \in obs.live :
        /\ ((tree - 1) % SLAB_SIZE) \in FreeSlots
        /\ parser' = [parser EXCEPT !.tree_pool = ts_tree_pool_free(@, tree, build)]
        /\ obs' = [obs EXCEPT !.live = @ \ {tree}]
  /\ UNCHANGED <<build, call_vars, pc, parse, advance>>

\* ts_tree_pool_delete: the trees the caller held are gone with the slabs.
PoolDelete ==
  /\ pc = "pool"
  /\ parser' = [parser EXCEPT !.tree_pool = ts_tree_pool_delete(@)]
  /\ pc' = "deleted"
  /\ obs' = ObsZero
  /\ UNCHANGED <<build, call_vars, parse, advance>>

\* ts_tree_pool_init on the pool that was deleted.
PoolInitAgain ==
  /\ pc = "deleted"
  /\ parser' = [parser EXCEPT !.tree_pool = ts_tree_pool_init]
  /\ pc' = "pool"
  /\ UNCHANGED <<build, call_vars, parse, advance, obs>>

PoolNext == PoolAllocate \/ PoolFree \/ PoolDelete \/ PoolInitAgain

SpecPool == PoolInit /\ [][PoolNext]_vars

\* C10: every ts_tree_pool_allocate returns a tree (not NULL) whose slot no
\* live tree has, and the slab at first_available_slab_index is never full
\* when ts_tree_pool_allocate is entered.
C10_AllocateFresh ==
  /\ obs.pool_result # NULL
  /\ ~obs.pool_was_live
  /\ ~obs.pool_entry_full
  /\ pc = "pool" =>
        ~tree_pool_slab__is_full(
           parser.tree_pool.slabs[parser.tree_pool.first_available_slab_index + 1])

\* C10, its case: slot 31 of the first slab is allocated again after it was
\* freed, the first two slabs are full again and the search for a slab with
\* room has passed over the second slab to the third.
C10_Witness ==
  /\ obs.pool_result = INT_WIDTH
  /\ Len(parser.tree_pool.slabs) = 3
  /\ parser.tree_pool.first_available_slab_index = 2
  /\ Cardinality(obs.live) > 2 * INT_WIDTH

(***************************************************************************)
(* parser__select_tree alone: the two alternatives are drawn from the      *)
(* trees of the bounds below and parser__select_tree is applied to them    *)
(* in either order.  obs.select records the last call.                     *)
(***************************************************************************)
MaxErrorCost == 2
MaxPrecedence == 1

\* The alternatives: nodes over the leaves 1 (a) and 2 (b), stored as the
\* trees 3 and 4.
Alternatives == {3, 4}

AlternativeTrees ==
  [symbol : {sym_S, sym_S + 1}, children : {<<1>>, <<1, 2>>},
   error_cost : 0 .. MaxErrorCost,
   dynamic_precedence : (0 - MaxPrecedence) .. MaxPrecedence]

AlternativeTree(a) ==
  [TreeZero EXCEPT !.symbol = a.symbol, !.children = a.children,
                   !.error_cost = a.error_cost,
                   !.dynamic_precedence = a.dynamic_precedence,
                   !.size = Len(a.children), !.ref_count = 1, !.visible = TRUE]

SelectInit ==
  /\ build \in Builds
  /\ \E l \in AlternativeTrees, r \in AlternativeTrees :
        parser = [NewParser(TheLanguage) EXCEPT !.trees =
                    <<[TreeZero EXCEPT !.symbol = sym_a, !.size = 1, !.ref_count = 2],
                      [TreeZero EXCEPT !.symbol = sym_b, !.size = 1, !.ref_count = 2],
                      AlternativeTree(l), AlternativeTree(r)>>]
  /\ input = << >>
  /\ old_tree = NULL
  /\ halt_on_error = FALSE
  /\ pc = "select"
  /\ parse = ParseZero
  /\ advance = AdvanceZero
  /\ obs = ObsZero

SelectTree ==
  /\ pc = "select"
  /\ \E l \in Alternatives, r \in Alternatives :
        obs' = [obs EXCEPT !.select =
                  [left |-> l, right |-> r,
                   result |-> parser__select_tree(parser.trees, l, r)]]
  /\ UNCHANGED <<build, parser, call_vars, pc, parse, advance>>

SelectNext == SelectTree

SpecSelect == SelectInit /\ [][SelectNext]_vars

\* The tree a call of parser__select_tree(left, right) keeps.
Selected(T, left, right) == IF parser__select_tree(T, left, right) THEN right ELSE left

\* C4: of two trees parser__select_tree keeps the one of smaller error_cost
\* and, when the error costs are equal, the one of larger
\* dynamic_precedence; the call with the two trees exchanged keeps the same
\* tree.
C4_SelectByCostThenPrecedence ==
  LET T == parser.trees
      l == obs.select.left
      r == obs.select.right
      kept == IF obs.select.result THEN r ELSE l
  IN  l # NULL =>
        /\ T[l].error_cost # T[r].error_cost =>
              /\ T[kept].error_cost = Min({T[l].error_cost, T[r].error_cost})
              /\ Selected(T, r, l) = kept
        /\ (T[l].error_cost = T[r].error_cost
            /\ T[l].dynamic_precedence # T[r].dynamic_precedence) =>
              /\ T[kept].dynamic_precedence =
                    Max({T[l].dynamic_precedence, T[r].dynamic_precedence})
              /\ Selected(T, r, l) = kept

\* C4, its case: the call had two trees of the same positive error cost, the
\* right one of larger dynamic precedence, and took the right one.
C4_Witness ==
  LET T == parser.trees
      l == obs.select.left
      r == obs.select.right
  IN  /\ l # NULL
      /\ T[l].error_cost = T[r].error_cost
      /\ T[l].error_cost > 0
      /\ T[r].dynamic_precedence > T[l].dynamic_precedence
      /\ obs.select.result

\* C5, as stated: with equal error_cost and equal dynamic_precedence the
\* result of parser__select_tree is that of ts_tree_compare (the right tree
\* is taken exactly when ts_tree_compare is 1), whatever the error cost.
C5_CompareDecidesAnyCost ==
  LET T == parser.trees
      l == obs.select.left
      r == obs.select.right
  IN  (l # NULL /\ T[l].error_cost = T[r].error_cost
       /\ T[l].dynamic_precedence = T[r].dynamic_precedence) =>
        obs.select.result = (ts_tree_compare(T, l, r) = 1)

\* C5, amended: with equal dynamic_precedence and an error_cost of zero in
\* both trees the result is that of ts_tree_compare, the left tree being
\* kept on equality; with the same positive error_cost the right tree is
\* taken and ts_tree_compare is not consulted.
C5_CompareDecidesZeroCost ==
  LET T == parser.trees
      l == obs.select.left
      r == obs.select.right
  IN  (l # NULL /\ T[l].error_cost = T[r].error_cost
       /\ T[l].dynamic_precedence = T[r].dynamic_precedence) =>
        IF T[l].error_cost = 0
        THEN obs.select.result = (ts_tree_compare(T, l, r) = 1)
        ELSE obs.select.result

\* C5, its case: two different trees that ts_tree_compare finds equal, with
\* equal dynamic precedence and no error cost: the left tree was kept.
C5_Witness ==
  LET T == parser.trees
      l == obs.select.left
      r == obs.select.right
  IN  /\ l # NULL
      /\ l # r
      /\ T[l].error_cost = 0
      /\ T[r].error_cost = 0
      /\ T[l].dynamic_precedence = T[r].dynamic_precedence
      /\ ts_tree_compare(T, l, r) = 0
      /\ ~obs.select.result

(***************************************************************************)
(* Stacks for the functions that compare versions.  Each version is built  *)
(* over the base node as the driver builds one, by ts_stack_push: what it  *)
(* has of nodes, positions, depths and costs is what the pushes give.  A   *)
(* version has pushed, in its state,                                       *)
(*   - a token that ends at a position of its own, if the versions are to  *)
(*     differ in state and position (distinct), so that no two can merge;  *)
(*   - `width` bytes of the input: a token, or, if it has recovered from   *)
(*     an error, the ERROR node over the token it has skipped, which has   *)
(*     kind.skipped characters (the bytes before them are its padding)     *)
(*     and is made an extra before the push, as parser__recover does       *)
(*     (the push of an extra adds nothing to push count and depth);        *)
(*   - empty trees (the rule L -> ), up to kind.pushes pushes;             *)
(* and, if it is in error, NULL with ERROR_STATE as parser__handle_error   *)
(* pushes it, with the summary parser__handle_error records after the      *)
(* push.  It is halted by ts_stack_halt.                                   *)
(***************************************************************************)
\* The ERROR node over one token of `skipped` characters that ends `width`
\* bytes after the node begins.
SkippedNode(P, skipped, width) ==
  Value([leaf \in {ts_tree_make_leaf(P, sym_a, width - skipped, skipped)} |->
      ts_tree_make_error_node(leaf.p, <<leaf.tree>>)])

\* The tree is pushed on version v and the reference of the caller given up.
PushOwned(mk, v, st) ==
  Value([m \in {mk} |->
      ts_tree_release(ts_stack_push(m.p, v, m.tree, FALSE, st), m.tree)])

RECURSIVE PushEmptyTrees(_, _, _, _)
PushEmptyTrees(P, v, st, n) ==
  IF n <= 0 THEN P
  ELSE IF n = 1 THEN PushOwned(ts_tree_make_node(P, sym_L, << >>, 0), v, st)
  ELSE Value([P1 \in {PushEmptyTrees(P, v, st, n \div 2)} |->
           PushEmptyTrees(P1, v, st, n - (n \div 2))])

\* Version v, the i-th of the stack, of the kind.
BuildVersion(P, v, i, kind, distinct, width) ==
  LET st == IF distinct THEN 1 + i ELSE 2
  IN  Value([P1 \in {IF distinct
                     THEN PushOwned(ts_tree_make_leaf(P, sym_a, i - 1, 1), v, st)
                     ELSE P} |->
      Value([P2 \in {IF kind.skipped > 0
                     THEN Value([error \in {SkippedNode(P1, kind.skipped, width)} |->
                              PushOwned([error EXCEPT !.p.trees[error.tree].extra = TRUE],
                                        v, st)])
                     ELSE PushOwned(ts_tree_make_leaf(P1, sym_a, width - 1, 1), v, st)} |->
      Value([P3 \in {PushEmptyTrees(P2, v, st, kind.pushes - 1)} |->
      Value([P4 \in {IF kind.is_in_error
                     THEN Value([P5 \in {ts_stack_push(P3, v, NULL, FALSE, ERROR_STATE)} |->
                              ts_stack_record_summary(P5, v, MAX_SUMMARY_DEPTH)])
                     ELSE P3} |->
          IF kind.is_halted THEN ts_stack_halt(P4, v) ELSE P4])])])])

\* Version 0 stays at the base node until the versions are built.
RECURSIVE BuildVersions(_, _, _, _, _)
BuildVersions(P, kinds, distinct, width, i) ==
  IF i > Len(kinds) THEN ts_stack_remove_version(P, 0)
  ELSE Value([P1 \in {BuildVersion(ts_stack_copy_version(P, 0), i, i, kinds[i],
                                   distinct, width)} |->
           BuildVersions(P1, kinds, distinct, width, i + 1)])

\* The stack of the versions, and a finished tree: none (finished < 0), one
\* without error (finished = 0) or the ERROR node over a token of `finished`
\* characters.
VersionStack(kinds, distinct, width, finished) ==
  Value([P \in {BuildVersions(NewParser(TheLanguage), kinds, distinct, width, 1)} |->
      IF finished < 0 THEN P
      ELSE Value([mk \in {IF finished = 0 THEN ts_tree_make_node(P, sym_P, << >>, 0)
                          ELSE SkippedNode(P, finished, width)} |->
               [mk.p EXCEPT !.finished_tree = mk.tree]])])

(***************************************************************************)
(* parser__condense_stack alone, on the stacks of up to MaxStackVersions   *)
(* versions drawn from the bounds below, which share their state and       *)
(* position.  obs records the call as RoundEnd does.                       *)
(***************************************************************************)
MaxStackVersions == 3

\* The characters a version has skipped and the pushes it has made: no token
\* or a token of 700 characters (an ERROR node of cost 800), and a number
\* of pushes that does or does not make the cost of that token decisive
\* against a version that has skipped none (800 * (1 + 1) is
\* MAX_COST_DIFFERENCE, 800 * (1 + 2) is above it).  The push of the ERROR
\* node does not count, and the push that enters ERROR_STATE sets the push
\* count to 0.
VersionSkipped == {0, 700}
VersionPushCounts == {1, 2}
VersionWidth == Max(VersionSkipped)

StackVersions ==
  {kind \in [is_in_error : BOOLEAN, skipped : VersionSkipped,
             pushes : VersionPushCounts, is_halted : BOOLEAN] :
      kind.is_in_error => kind.pushes = 1}

CondenseInit ==
  /\ build \in Builds
  /\ \E n \in 1 .. MaxStackVersions : \E vs \in [1 .. n -> StackVersions] :
        parser = VersionStack(vs, FALSE, VersionWidth, -1)
  /\ input = << >>
  /\ old_tree = NULL
  /\ halt_on_error = FALSE
  /\ pc = "stack"
  /\ parse = ParseZero
  /\ advance = AdvanceZero
  /\ obs = ObsZero

CondenseStack ==
  /\ pc = "stack"
  /\ \E cmp \in {CondenseCompare(parser)} :
     \E r \in {parser__condense_stack(parser)} :
         /\ parser' = r.p
         /\ obs' = [obs EXCEPT
                      !.rounds = 1,
                      !.versions_in = ts_stack_version_count(parser),
                      !.versions_compare = ts_stack_version_count(cmp.p),
                      !.versions_out = ts_stack_version_count(r.p),
                      !.min_in = MinErrorCost(parser),
                      !.max_in = LargestErrorCost(parser),
                      !.min_compare = MinErrorCost(cmp.p),
                      !.min_out = MinErrorCost(r.p),
                      !.should_halt = r.should_halt]
  /\ pc' = "condensed"
  /\ UNCHANGED <<build, call_vars, parse, advance>>

RoundsNext == Next \/ CondenseStack


(***************************************************************************)
(* Properties of parser_parse.                                             *)
(***************************************************************************)
\* The call is between its entry and its return.
Running == pc \in {"for", "while", "advance", "condense", "finish"}

\* C1: the root returned by parser_parse, with or without a previous tree
\* and with either value of halt_on_error, has padding + size = the length
\* of the input.
C1_RootCoversInput ==
  pc = "returned" =>
    /\ obs.result # NULL
    /\ ts_tree_total_bytes(parser.trees[obs.result]) = Len(input)

\* C1, its case: a parse of a non-empty input with a previous tree has
\* returned.
C1_Witness ==
  /\ pc = "returned"
  /\ old_tree # NULL
  /\ obs.result # NULL
  /\ Len(input) > 1
  /\ parser.trees[obs.result].padding > 0

\* C3: after every call of parser__condense_stack there are at most
\* MAX_VERSION_COUNT versions.
C3_VersionCountBounded ==
  /\ obs.versions_out <= MAX_VERSION_COUNT
  /\ (pc = "for" /\ parse.version = 0) =>
        ts_stack_version_count(parser) <= MAX_VERSION_COUNT

\* C3, its case: parser__condense_stack has just returned; its comparison
\* pass left more than MAX_VERSION_COUNT versions and the truncation cut
\* them to MAX_VERSION_COUNT.
C3_Witness ==
  /\ obs.rounds > 0
  /\ pc = "for"
  /\ parse.version = 0
  /\ obs.versions_compare > MAX_VERSION_COUNT
  /\ ts_stack_version_count(parser) = MAX_VERSION_COUNT

\* C6: with halt_on_error, a round that ends with at least one version,
\* every version in ERROR_STATE and no finished tree is the last round:
\* parser__halt_parse has run from the top position of version 0, and the
\* tree then returned is an ERROR root that holds the error leaf of all the
\* bytes from that position to the end of the input, ends with the
\* end-of-input leaf and covers the whole input.
C6_HaltOnError ==
  (halt_on_error /\ obs.rounds > 0 /\ obs.all_in_error /\ ~obs.accepted) =>
    /\ ~(pc \in {"for", "while", "advance", "condense"})
    /\ obs.halt_position >= 0
    /\ pc = "returned" =>
         LET T    == parser.trees
             root == T[obs.result]
             kids == root.children
         IN  /\ obs.result # NULL
             /\ root.symbol = ts_builtin_sym_error
             /\ ts_tree_total_bytes(root) = Len(input)
             /\ Len(kids) >= 2
             /\ T[kids[Len(kids)]].symbol = ts_builtin_sym_end
             /\ LET filler == T[kids[Len(kids) - 1]]
                IN  /\ filler.symbol = ts_builtin_sym_error
                    /\ filler.children = << >>
                    /\ filler.padding = 0
                    /\ filler.size = Len(input) - obs.halt_position

\* C6, its case: a parse with halt_on_error was given up in a round after
\* the first, before the end of the input, and has returned.
C6_Witness ==
  /\ halt_on_error
  /\ pc = "returned"
  /\ obs.rounds > 1
  /\ obs.all_in_error
  /\ ~obs.accepted
  /\ obs.halt_position > 0
  /\ obs.halt_position < Len(input)

\* Until a tree is accepted, the least error cost of the live versions right
\* after parser__condense_stack is not larger than it was right after the
\* parser__condense_stack of the round before.
MinCostMonotone ==
  (obs.prev_min_out >= 0 /\ obs.min_out >= 0 /\ ~obs.accepted) =>
    obs.min_out <= obs.prev_min_out

\* parser__condense_stack discards no live version of least error cost: the
\* least cost of the live versions it leaves is that of the live versions it
\* was called with.
CondenseKeepsMinCost ==
  (obs.rounds > 0 /\ obs.min_in >= 0) => obs.min_out = obs.min_in

\* The truncation to MAX_VERSION_COUNT discards no version of least error
\* cost.
TruncationKeepsMinCost ==
  (obs.rounds > 0 /\ obs.min_compare >= 0) => obs.min_out = obs.min_compare

\* C9, as stated: from one round boundary to the next the least error cost
\* of the live versions does not increase until a tree is accepted, and
\* what parser__condense_stack does (halting, pruning, truncating to
\* MAX_VERSION_COUNT) never discards the version of least error cost.
C9_MinCostNeverIncreases == MinCostMonotone /\ CondenseKeepsMinCost

\* C9, amended: in parser__condense_stack the removal of the halted versions
\* and the comparison of the pairs of versions leave the least error cost
\* of the live versions as the round left it: they do not discard the
\* version of least cost.
C9_CompareKeepsMinCost ==
  obs.rounds > 0 => obs.min_compare = obs.min_in

\* C9, its case: the comparison pass of parser__condense_stack removed
\* versions of a cost larger than the least one.
C9_Witness ==
  /\ obs.rounds > 0
  /\ obs.min_in >= 0
  /\ obs.versions_compare < obs.versions_in
  /\ obs.min_in < obs.max_in

\* C7, as stated: a parse without a previous tree returns a tree
\* structurally equal to the one the first parse of the same input without
\* a previous tree returned, whatever the halt_on_error of the two calls.
C7_ResultDependsOnInputOnly ==
  (pc = "returned" /\ old_tree = NULL /\ obs.calls > 1 /\ input = obs.plan[1]) =>
    \A h \in BOOLEAN : obs.shape[h] # << >> => obs.last_shape = obs.shape[h]

\* C7, amended: a parse without a previous tree returns a tree structurally
\* equal to the one the first parse of the same input with the same
\* halt_on_error returned, whatever the parser has parsed in between.
C7_ResultDependsOnInputAndHalt ==
  (pc = "returned" /\ old_tree = NULL /\ obs.calls > 1 /\ input = obs.plan[1]
   /\ obs.shape[halt_on_error] # << >>) =>
    obs.last_shape = obs.shape[halt_on_error]

\* C7, its case: the second parse of an input with the same halt_on_error
\* has returned; in between the parser parsed another input, which left it
\* in_ambiguity.
C7_Witness ==
  /\ pc = "returned"
  /\ obs.calls = 3
  /\ input = obs.plan[1]
  /\ input # obs.plan[2]
  /\ Len(input) > 1
  /\ obs.started_in_ambiguity
  /\ obs.shape[halt_on_error] # << >>
  /\ obs.last_shape = obs.shape[halt_on_error]


(***************************************************************************)
(* The references to subtrees at the return of parser_parse, and the pool  *)
(* once the caller has released its trees.                                 *)
(***************************************************************************)
\* The pointers of the slots whose bit is set in the bitmap of their slab.
MarkedTrees(pool) ==
  UNION {{s * SLAB_SIZE + i + 1 : i \in pool.slabs[s + 1]} :
           s \in 0 .. (Len(pool.slabs) - 1)}

\* The trees of `todo` and their descendants.
RECURSIVE Subtrees(_, _, _)
Subtrees(T, todo, seen) ==
  IF todo = {} THEN seen
  ELSE Value([t \in {CHOOSE x \in todo : TRUE} |->
       LET next == IF t \in DOMAIN T
                   THEN {T[t].children[k] : k \in 1 .. Len(T[t].children)} ELSE {}
       IN  Subtrees(T, (todo \cup next) \ (seen \cup {t}), seen \cup {t})])

\* The trees the caller holds when parser_parse has returned: the returned
\* tree and the tree of its document (the previous tree of the call).
CallerTrees == {obs.result, obs.tree} \ {NULL}

\* The stack and the token cache refer to no tree.
NoParserReference ==
  /\ \A n \in DOMAIN parser.nodes :
        \A k \in 1 .. Len(parser.nodes[n].links) : parser.nodes[n].links[k].tree = NULL
  /\ \A k \in 1 .. Len(parser.heads) : parser.heads[k].last_external_token = NULL
  /\ parser.token_cache.token = NULL
  /\ parser.token_cache.last_external_token = NULL

\* C8: when parser_parse has returned, the stack and the token cache hold
\* no subtree, every slot marked in the pool is a subtree with ref_count >= 1
\* that is reachable from the returned tree or from the previous tree, and
\* once the caller has released its trees every slab bitmap is zero.
C8_RefCountsBalance ==
  /\ pc = "returned" =>
        /\ NoParserReference
        /\ \A t \in MarkedTrees(parser.tree_pool) :
              /\ t \in DOMAIN parser.trees
              /\ parser.trees[t].ref_count >= 1
              /\ t \in Subtrees(parser.trees, CallerTrees, {})
  /\ (pc = "idle" /\ obs.calls > 0 /\ obs.tree = NULL) =>
        \A s \in 1 .. Len(parser.tree_pool.slabs) : parser.tree_pool.slabs[s] = {}

(***************************************************************************)
(* The occupancy bitmap of a slab (tree_pool_slab__allocate,               *)
(* tree_pool_slab__free), under SpecPool.                                  *)
(***************************************************************************)
\* The slots of slab s (0-based) whose trees the caller holds.
LiveSlots(s) == {SlabIndex(s, t) : t \in {x \in obs.live : tree_pool_slab__owns(s, x)}}

\* C11: the bitmap of every slab has one bit per slot: its one-bits are the
\* slots of the trees that are allocated and not freed, so that a slab holds
\* SLAB_SIZE trees before it is full.
C11_OneBitPerSlot ==
  \A s \in 0 .. (Len(parser.tree_pool.slabs) - 1) :
     parser.tree_pool.slabs[s + 1] = LiveSlots(s)

(***************************************************************************)
(* The entry of the summary at which parser__recover resumes.  The state   *)
(* looked at is the one in which the next iteration of parser__advance     *)
(* takes the Recover action of the table entry.                            *)
(***************************************************************************)
RecoverPending ==
  /\ pc = "advance"
  /\ parser.fault = ""
  /\ advance.table_entry.actions # << >>
  /\ advance.table_entry.actions[1].type = "Recover"

\* parser__advance at the call of parser__recover.
RecoverCall ==
  RecoverBreakdown(
    [p |-> parser, reusable_node |-> parse.reusable_node, state |-> advance.state,
     lookahead |-> advance.lookahead, table_entry |-> advance.table_entry,
     last_reduction_version |-> STACK_VERSION_NONE, returned |-> FALSE])

\* new_cost of parser__recover for an entry of the summary.
RecoverCost(P, v, entry) ==
  (entry.depth + ts_stack_depth_since_error(P, v)) * ERROR_COST_PER_SKIPPED_TREE +
  (ts_stack_top_position(P, v) - entry.position) * ERROR_COST_PER_SKIPPED_CHAR

\* The entry is not skipped and its state has an action for the lookahead.
Resumable(P, la, entry) ==
  entry.state # ERROR_STATE /\ ts_language_actions(P.language, entry.state, P.trees[la].symbol) # << >>

\* The entry is not skipped and a better version exists for its cost.
Beaten(P, v, entry) ==
  entry.state # ERROR_STATE /\
  parser__better_version_exists(P, v, FALSE, RecoverCost(P, v, entry))

\* The entries at which the scan of the summary can end.
RecoverStops(P, v, la, summary) ==
  {i \in 1 .. Len(summary) : Beaten(P, v, summary[i]) \/ Resumable(P, la, summary[i])}

\* The entry at which the stack is popped: 0 when there is none.
RecoverPoint(P, v, la, summary) ==
  IF RecoverStops(P, v, la, summary) = {} THEN 0
  ELSE IF Beaten(P, v, summary[Min(RecoverStops(P, v, la, summary))]) THEN 0
  ELSE Min(RecoverStops(P, v, la, summary))

\* What the scan of the summary yields when it resumes at the entry i (at
\* none when i is 0).
RecoverAt(P, v, la, summary, i) ==
  IF i = 0 THEN [p |-> P, did_recover |-> FALSE]
  ELSE RecoverEntry([p |-> P, did_recover |-> FALSE, i |-> i, break |-> FALSE],
                    v, la, summary[i])

SameRecovery(r, e) == r.p = e.p /\ r.did_recover = e.did_recover

RecoversAtPoint(c, v) ==
  c.returned \/ ~c.p.heads[v + 1].has_summary \/
  SameRecovery(RecoverSummary(c.p, v, c.lookahead, ts_stack_get_summary(c.p, v)),
               RecoverAt(c.p, v, c.lookahead, ts_stack_get_summary(c.p, v),
                         RecoverPoint(c.p, v, c.lookahead, ts_stack_get_summary(c.p, v))))

\* The entry popped at is a resumable entry of the least depth.
ShallowestPoint(P, v, la, summary) ==
  RecoverPoint(P, v, la, summary) = 0 \/
  \A j \in 1 .. Len(summary) :
     Resumable(P, la, summary[j]) =>
        summary[RecoverPoint(P, v, la, summary)].depth <= summary[j].depth

(***************************************************************************)
(* parser__recover with a finished tree.  The language of the parses above *)
(* never leaves a finished tree next to a version that recovers, so the    *)
(* stacks here stand for those of any language: tokens of the input are    *)
(* lexed and shifted with states of RecoverStates, the version enters the  *)
(* error state as parser__handle_error makes it (the ERROR_STATE push and  *)
(* the summary), and the finished tree is the error node that an earlier   *)
(* recovery at the end of the input makes of the tokens it skipped.        *)
(***************************************************************************)
MaxRecoverDepth == 3
RecoverStates == {ERROR_STATE, 3, 6, 15}
RecoverInputs ==
  {[i \in 1 .. n |-> CH_a] \o la :
     n \in 1 .. MaxRecoverDepth, la \in {<< >>, <<CH_a>>, <<CH_b>>}}

\* The tokens of the input, but the last, shifted with the states given.
RECURSIVE RecoverTokens(_, _, _, _)
RecoverTokens(P, inp, states, i) ==
  IF i > Len(states) THEN P
  ELSE Value([lex \in {parser__lex(P, inp, 0, 1)} |->
       Value([P1 \in {parser__shift(lex.p, 0, states[i], lex.tree, FALSE)} |->
       Value([P2 \in {ts_tree_release(P1, lex.tree)} |->
           RecoverTokens(P2, inp, states, i + 1)])])])

\* k leaves of one character each.
RECURSIVE SkippedLeaves(_, _)
SkippedLeaves(c, k) ==
  IF k = 0 THEN c
  ELSE Value([leaf \in {ts_tree_make_leaf(c.p, sym_a, 0, 1)} |->
           SkippedLeaves([p |-> leaf.p, children |-> Append(c.children, leaf.tree)], k - 1)])

\* The finished tree: the error node of k skipped tokens, or none if k = 0.
FinishedError(P, k) ==
  IF k = 0 THEN P
  ELSE Value([c \in {SkippedLeaves([p |-> P, children |-> << >>], k)} |->
       Value([r \in {ts_tree_make_error_node(c.p, c.children)} |->
           [r.p EXCEPT !.finished_tree = r.tree,
                       !.accepted = <<Snapshot(r.p.trees, r.tree)>>, !.chosen = 1]])])

\* n more versions with the head of version 0.
RECURSIVE CopyVersions(_, _)
CopyVersions(P, n) ==
  IF n = 0 THEN P ELSE CopyVersions(ts_stack_copy_version(P, 0), n - 1)

\* The version in the error state, at the lookahead that follows; with
\* crowd the stack is full: it has MAX_VERSION_COUNT versions, all in the
\* error state at the same place.
RecoverStack(inp, states, k, crowd) ==
  Value([P1 \in {RecoverTokens(NewParser(TheLanguage), inp, states, 1)} |->
  Value([P2 \in {ts_stack_push(P1, 0, NULL, FALSE, ERROR_STATE)} |->
  Value([P3 \in {ts_stack_record_summary(P2, 0, MAX_SUMMARY_DEPTH)} |->
  Value([P4 \in {FinishedError(CopyVersions(P3, IF crowd THEN MAX_VERSION_COUNT - 1 ELSE 0), k)} |->
      AdvanceEnter(P4, inp, 0, ReusableNodeZero)])])])])

RecoverInit ==
  /\ build \in Builds
  /\ parser = NewParser(TheLanguage)
  /\ input \in RecoverInputs
  /\ old_tree = NULL
  /\ halt_on_error = FALSE
  /\ pc = "tokens"
  /\ parse = ParseZero
  /\ advance = AdvanceZero
  /\ obs = [ObsZero EXCEPT !.max_calls = 1, !.calls = 1, !.plan = <<input>>]

\* The parse up to the lookahead at which the version recovers.
RecoverEnter ==
  /\ pc = "tokens"
  /\ \E n \in {Len(input) - 1, Len(input)} \cap (1 .. MaxRecoverDepth) :
     \E states \in [1 .. n -> RecoverStates] :
     \E k \in 0 .. MaxRecoverDepth :
     \E crowd \in BOOLEAN :
     \E c \in {RecoverStack(input, states, k, crowd)} :
        /\ parser' = c.p
        /\ parse' = [parse EXCEPT !.position = n, !.reusable_node = c.reusable_node]
        /\ advance' = [state |-> c.state, lookahead |-> c.lookahead,
                       table_entry |-> c.table_entry]
  /\ pc' = "advance"
  /\ UNCHANGED <<build, call_vars, obs>>

RecoverNext == RecoverEnter \/ AdvanceLoop

\* parser__advance on the stacks above.
SpecRecover == RecoverInit /\ [][RecoverNext]_vars

\* C12: parser__recover pops the stack at the first entry of the summary, in
\* recorded order and ERROR_STATE entries skipped, whose state has an action
\* for the lookahead; it pops at no entry when a better version exists for
\* the cost of that entry or of an entry before it; the entry it pops at is
\* a resumable entry of the least depth.
C12_RecoverAtFirstResumable ==
  RecoverPending =>
     /\ RecoversAtPoint(RecoverCall, parse.version)
     /\ ShallowestPoint(RecoverCall.p, parse.version, RecoverCall.lookahead,
                        ts_stack_get_summary(RecoverCall.p, parse.version))

\* C12, its case: the version recovers at an entry that follows an entry of
\* another state with no action for the lookahead, and a later entry is
\* beaten by the finished tree.
RecoverWitness(P, v, la, summary) ==
  /\ RecoverPoint(P, v, la, summary) > 1
  /\ RecoverAt(P, v, la, summary, RecoverPoint(P, v, la, summary)).did_recover
  /\ \E j \in 1 .. (RecoverPoint(P, v, la, summary) - 1) : summary[j].state # ERROR_STATE
  /\ \E j \in (RecoverPoint(P, v, la, summary) + 1) .. Len(summary) :
        Beaten(P, v, summary[j])

C12_Witness ==
  /\ RecoverPending
  /\ ~RecoverCall.returned
  /\ RecoverCall.p.heads[parse.version + 1].has_summary
  /\ RecoverWitness(RecoverCall.p, parse.version, RecoverCall.lookahead,
                    ts_stack_get_summary(RecoverCall.p, parse.version))

(***************************************************************************)
(* The subtrees on the stack and their fragility.                          *)
(***************************************************************************)
StackTrees(P) ==
  UNION {{P.nodes[n].links[k].tree : k \in 1 .. Len(P.nodes[n].links)} :
            n \in DOMAIN P.nodes} \ {NULL}

Fragile(P, t) == P.trees[t].fragile_left \/ P.trees[t].fragile_right

\* C13: a subtree on the stack that is fragile on either side has the parse
\* state TS_TREE_STATE_NONE.
C13_FragileHasNoState ==
  parser.fault = "" =>
     \A t \in StackTrees(parser) :
        Fragile(parser, t) => parser.trees[t].parse_state = TS_TREE_STATE_NONE

\* The parents among them: a subtree with children on the stack, other than
\* an error node, that has a parse state is fragile on neither side.
ReducedParentNotFragile ==
  parser.fault = "" =>
     \A t \in StackTrees(parser) :
        (/\ parser.trees[t].children # << >>
         /\ parser.trees[t].symbol # ts_builtin_sym_error
         /\ parser.trees[t].parse_state # TS_TREE_STATE_NONE) => ~Fragile(parser, t)

(***************************************************************************)
(* The writes of parser__shift and parser__accept to the lookahead.  The   *)
(* states looked at are those in which the next iteration of               *)
(* parser__advance starts with a Shift or an Accept action; parser__advance*)
(* holds one reference to its lookahead.                                   *)
(***************************************************************************)
ShiftPending ==
  /\ pc = "advance"
  /\ parser.fault = ""
  /\ advance.table_entry.actions # << >>
  /\ advance.table_entry.actions[1].type = "Shift"

AcceptPending ==
  /\ pc = "advance"
  /\ parser.fault = ""
  /\ advance.table_entry.actions # << >>
  /\ advance.table_entry.actions[1].type = "Accept"

\* parser__advance at the call of parser__shift.
ShiftCall ==
  IF parser.trees[advance.lookahead].children # << >>
  THEN parser__breakdown_lookahead(parser, advance.lookahead, advance.state,
                                   parse.reusable_node)
  ELSE [p |-> parser, lookahead |-> advance.lookahead,
        reusable_node |-> parse.reusable_node]

\* parser__shift writes the extra flag of the lookahead itself, not of a copy.
ShiftWritesInPlace(P, la, extra) ==
  extra # P.trees[la].extra /\ ts_stack_version_count(P) <= 1

\* C14: when parser__shift or parser__accept changes the extra flag of the
\* lookahead in place, the reference of parser__advance is the only one to
\* the lookahead.
C14_WritesOnlyUnshared ==
  /\ ShiftPending =>
        (ShiftWritesInPlace(ShiftCall.p, ShiftCall.lookahead,
                            advance.table_entry.actions[1].extra) =>
           ShiftCall.p.trees[ShiftCall.lookahead].ref_count = 1)
  /\ AcceptPending =>
        (~parser.trees[advance.lookahead].extra =>
           parser.trees[advance.lookahead].ref_count = 1)

(***************************************************************************)
(* Parses of inputs that hold the characters of the external scanner.      *)
(***************************************************************************)
MaxScanLen == 3
ScannerChars == {CH_a, CH_b, CH_x, CH_y}
ScannerInputs == UNION {[1 .. n -> ScannerChars] : n \in 0 .. MaxScanLen}

InitScanner == InitParser(Builds, ScannerInputs, 1)

SpecScanner == InitScanner /\ [][Next]_vars

\* The token that parser__lex has made last and the last external token of
\* the version it was made for: parser__get_lookahead puts both in the token
\* cache right after the call.
LexedToken == parser.token_cache.token
LexingToken == parser.token_cache.last_external_token

LexingState ==
  IF LexingToken = NULL THEN << >> ELSE parser.trees[LexingToken].external_token_state

\* Every scan of the calls follows a deserialize of the bytes given.
ScansRestored(calls, data) ==
  \A i \in 1 .. Len(calls) :
     calls[i].call = "scan" =>
        /\ i > 1
        /\ calls[i - 1].call = "deserialize"
        /\ calls[i - 1].data = data

\* The calls end with a scan and the serialize of what that scan left, and
\* the token stores the bytes.
StateStored(calls, token) ==
  /\ Len(calls) >= 3
  /\ calls[Len(calls)].call = "serialize"
  /\ calls[Len(calls) - 1].call = "scan"
  /\ calls[Len(calls)].payload = calls[Len(calls) - 1].payload
  /\ calls[Len(calls)].data = external_scanner_serialize(calls[Len(calls) - 1].payload)
  /\ token.external_token_state = calls[Len(calls)].data

\* C15: in a call of parser__lex every scan of the external scanner comes
\* right after a deserialize of the state of the last external token of the
\* lexing version (of no byte when there is none), and a token the scanner
\* has made stores the state serialized right after the scan that made it.
C15_ScannerStateRestored ==
  (parser.fault = "" /\ LexedToken # NULL) =>
     /\ ScansRestored(parser.scanner_calls, LexingState)
     /\ parser.trees[LexedToken].has_external_tokens =>
           StateStored(parser.scanner_calls, parser.trees[LexedToken])

\* C15, its case: for a version whose last external token has a state of
\* one byte the scanner has made a token and has changed its state.
C15_Witness ==
  /\ parser.fault = ""
  /\ LexedToken # NULL
  /\ LexingState # << >>
  /\ parser.trees[LexedToken].has_external_tokens
  /\ parser.trees[LexedToken].external_token_state # LexingState


\* ---------------------------------------------------------------------------
\* parser__compare_versions on its own: the statuses of two versions are drawn
\* from costs and push counts on both sides of MAX_COST_DIFFERENCE and of the
\* width of an unsigned.
CompareCosts == {0, 1, 17, 1601, 65536}

ComparePushCounts == {0, 99, 1599, 1600, 65535}

CompareStatuses ==
  [cost : CompareCosts, push_count : ComparePushCounts, is_in_error : BOOLEAN]

CompareInit ==
  /\ build \in Builds
  /\ parser = NewParser(TheLanguage)
  /\ input = << >>
  /\ old_tree = NULL
  /\ halt_on_error = FALSE
  /\ pc = "compare"
  /\ parse = ParseZero
  /\ advance = AdvanceZero
  /\ obs = ObsZero

CompareVersions ==
  /\ pc = "compare"
  /\ obs.compare = << >>
  /\ \E a \in CompareStatuses, b \in CompareStatuses :
        obs' = [obs EXCEPT !.compare =
                  <<[a |-> a, b |-> b, result |-> parser__compare_versions(a, b)]>>]
  /\ UNCHANGED <<build, parser, call_vars, pc, parse, advance>>

CompareNext == CompareVersions

SpecCompare == CompareInit /\ [][CompareNext]_vars

\* x * y > m over the integers, for m >= 0, without forming the product.
ProductExceeds(x, y, m) == x > 0 /\ y > m \div x

\* The verdict when w wins over l.
Winner(w, l, take, prefer) ==
  IF w.is_in_error = l.is_in_error
  THEN IF ProductExceeds(l.cost - w.cost, 1 + w.push_count, MAX_COST_DIFFERENCE)
       THEN take ELSE prefer
  ELSE IF w.cost < l.cost THEN take ELSE prefer

\* The verdict of two statuses as a table: a side that alone is not in error
\* wins, and with the same error status the strictly cheaper side wins.
VerdictTable(a, b) ==
  IF a.is_in_error # b.is_in_error
  THEN IF b.is_in_error THEN Winner(a, b, "TakeLeft", "PreferLeft")
                        ELSE Winner(b, a, "TakeRight", "PreferRight")
  ELSE IF a.cost < b.cost THEN Winner(a, b, "TakeLeft", "PreferLeft")
  ELSE IF b.cost < a.cost THEN Winner(b, a, "TakeRight", "PreferRight")
  ELSE "None"

\* C16: parser__compare_versions(a, b) returns, for all statuses, the verdict
\* of the table: with exactly one side in error the other side wins (Take when
\* its cost is strictly lower, else Prefer); with the same error status the
\* strictly cheaper side wins (Take when (cost_loser - cost_winner) *
\* (1 + push_count_winner) > MAX_COST_DIFFERENCE, else Prefer); None when the
\* status is the same and the costs are equal.
C16_VerdictTable ==
  \A k \in 1 .. Len(obs.compare) :
     obs.compare[k].result = VerdictTable(obs.compare[k].a, obs.compare[k].b)

\* The table holds when the product fits an unsigned.
ProductFits(a, b) ==
  \/ a.is_in_error # b.is_in_error
  \/ a.cost = b.cost
  \/ /\ a.cost < b.cost
     /\ ~ProductExceeds(b.cost - a.cost, 1 + a.push_count, 65535)
  \/ /\ b.cost < a.cost
     /\ ~ProductExceeds(a.cost - b.cost, 1 + b.push_count, 65535)

VerdictTableWhenProductFits ==
  \A k \in 1 .. Len(obs.compare) :
     ProductFits(obs.compare[k].a, obs.compare[k].b) =>
       obs.compare[k].result = VerdictTable(obs.compare[k].a, obs.compare[k].b)

\* ---------------------------------------------------------------------------
\* parser__condense_stack alone, on stacks of up to MaxCondenseVersions
\* versions, more than MAX_VERSION_COUNT.  A version is in error or not and
\* has skipped a token whose cost is or is not decisive against another;
\* the versions either share their state and position, so that versions of
\* one error status can merge (on stacks of up to MaxStackVersions versions),
\* or each has a state and a position of its own, so that none can.
\* A finished tree is absent or has a cost between the costs of the versions.
MaxCondenseVersions == 7

CondenseKinds ==
  {[is_in_error |-> FALSE, skipped |-> 0, pushes |-> 1, is_halted |-> FALSE],
   [is_in_error |-> FALSE, skipped |-> 400, pushes |-> 1, is_halted |-> FALSE],
   [is_in_error |-> FALSE, skipped |-> 900, pushes |-> 1, is_halted |-> FALSE],
   [is_in_error |-> TRUE, skipped |-> 0, pushes |-> 1, is_halted |-> FALSE]}

FinishedSkipped == {-1, 600}

CondenseWidth == Max({kind.skipped : kind \in CondenseKinds})

CondenseVersionsInit ==
  /\ build = "zero"
  /\ \E n \in 1 .. MaxCondenseVersions :
     \E vs \in [1 .. n -> CondenseKinds], finished \in FinishedSkipped :
     \E distinct \in IF n > MaxStackVersions THEN {TRUE} ELSE BOOLEAN :
        parser = VersionStack(vs, distinct, CondenseWidth, finished)
  /\ input = << >>
  /\ old_tree = NULL
  /\ halt_on_error = FALSE
  /\ pc = "stack"
  /\ parse = ParseZero
  /\ advance = AdvanceZero
  /\ obs = ObsZero

SpecCondense == CondenseVersionsInit /\ [][CondenseStack]_vars

\* The parses of SpecParse, and parser__condense_stack on the stacks of up
\* to MaxStackVersions versions.
SpecRounds == (InitParse \/ CondenseInit) /\ [][RoundsNext]_vars

\* Stacks of more than MAX_VERSION_COUNT versions that cannot merge, each in
\* error or not in error with no cost or with a decisive one.
TruncateInit ==
  /\ build = "zero"
  /\ \E n \in (MAX_VERSION_COUNT + 1) .. MaxCondenseVersions :
     \E vs \in [1 .. n -> {kind \in CondenseKinds :
                               kind.is_in_error \/ kind.skipped \in {0, CondenseWidth}}] :
        parser = VersionStack(vs, TRUE, CondenseWidth, -1)
  /\ input = << >>
  /\ old_tree = NULL
  /\ halt_on_error = FALSE
  /\ pc = "stack"
  /\ parse = ParseZero
  /\ advance = AdvanceZero
  /\ obs = ObsZero

\* The same, and parser__condense_stack on stacks of more than
\* MAX_VERSION_COUNT versions.
SpecAllRounds == (InitParse \/ CondenseInit \/ TruncateInit) /\ [][RoundsNext]_vars

\* ---------------------------------------------------------------------------
\* Properties of parser__condense_stack.
\* parser__condense_stack has returned and parser holds the stack it left.
Condensed == pc = "condensed"

\* The verdict of parser__compare_versions on versions i and j of the stack.
VersionVerdict(P, i, j) ==
  parser__compare_versions(ErrorStatusOf(P, i), ErrorStatusOf(P, j))

\* C17: when parser__condense_stack returns, no two remaining versions stand
\* in a TakeLeft or TakeRight verdict of parser__compare_versions, whatever
\* removals and swaps the pass made.
C17_NoDominatedVersionRemains ==
  Condensed =>
    \A i \in 0 .. ts_stack_version_count(parser) - 1 :
    \A j \in 0 .. ts_stack_version_count(parser) - 1 :
       i # j => VersionVerdict(parser, i, j) \notin {"TakeLeft", "TakeRight"}

\* Every version of the stack is in ERROR_STATE, and there is one.
AllRemainInError(P) ==
  /\ ts_stack_version_count(P) > 0
  /\ \A i \in 0 .. ts_stack_version_count(P) - 1 :
        ts_stack_top_state(P, i) = ERROR_STATE

\* There is a finished tree and its cost is strictly below the cost of every
\* version of the stack.
FinishedBelowAll(P) ==
  /\ P.finished_tree # NULL
  /\ \A i \in 0 .. ts_stack_version_count(P) - 1 :
        P.trees[P.finished_tree].error_cost < ts_stack_error_cost(P, i)

\* C18: parser__condense_stack returns true exactly when at least one version
\* remains and every remaining version is in ERROR_STATE, or a finished tree
\* exists whose error_cost is strictly below the error cost of every
\* remaining version; the versions removed do not influence the value.
C18_ShouldHaltOfRemaining ==
  Condensed =>
    (obs.should_halt <=> (AllRemainInError(parser) \/ FinishedBelowAll(parser)))

\* ---------------------------------------------------------------------------
\* parser__better_version_exists alone, on stacks of up to MaxBetterVersions
\* versions that share their position: a version is in error or not, has
\* skipped no token or one, with a push count that does or does not make that
\* cost decisive, or it is halted.  A finished tree is absent or has skipped
\* no token or one.  The function is asked with the costs a version of these
\* stacks can have.
MaxBetterVersions == 3

BetterKinds ==
  {kind \in StackVersions : ~kind.is_halted}
  \cup {[is_in_error |-> FALSE, skipped |-> 0, pushes |-> Max(VersionPushCounts),
         is_halted |-> TRUE]}

AskedCosts ==
  {c + r : c \in {0, ERROR_COST_PER_SKIPPED_TREE
                          + ERROR_COST_PER_SKIPPED_CHAR * Max(VersionSkipped)},
           r \in {0, ERROR_COST_PER_RECOVERY}}

BetterInit ==
  /\ build = "zero"
  /\ \E n \in 1 .. MaxBetterVersions :
     \E vs \in [1 .. n -> BetterKinds], finished \in {-1} \cup VersionSkipped :
        parser = VersionStack(vs, FALSE, VersionWidth, finished)
  /\ input = << >>
  /\ old_tree = NULL
  /\ halt_on_error = FALSE
  /\ pc = "stack"
  /\ parse = ParseZero
  /\ advance = AdvanceZero
  /\ obs = ObsZero

BetterVersionExists ==
  /\ pc = "stack"
  /\ \E v \in 0 .. ts_stack_version_count(parser) - 1 :
     \E is_in_error \in BOOLEAN, cost \in AskedCosts :
        obs' = [obs EXCEPT !.better =
                  <<[version |-> v, is_in_error |-> is_in_error, cost |-> cost,
                     result |-> parser__better_version_exists(parser, v, is_in_error, cost)]>>]
  /\ pc' = "better"
  /\ UNCHANGED <<build, parser, call_vars, parse, advance>>

SpecBetter == BetterInit /\ [][BetterVersionExists]_vars

\* The finished tree exists and costs no more than cost.
FinishedWithin(P, cost) ==
  P.finished_tree # NULL /\ P.trees[P.finished_tree].error_cost <= cost

\* The verdict of the status (cost, is_in_error), with push count 0, against
\* version i.
StatusVerdict(P, call, i) ==
  parser__compare_versions(
    [cost |-> call.cost, is_in_error |-> call.is_in_error, push_count |-> 0],
    ErrorStatusOf(P, i))

\* The versions that count: not the version of the call, not halted.
OtherLive(P, call) ==
  {i \in 0 .. ts_stack_version_count(P) - 1 :
      i # call.version /\ ~ts_stack_is_halted(P, i)}

\* C19, as stated: parser__better_version_exists returns true exactly when
\* the finished tree exists with error_cost <= cost, or some other
\* non-halted version gives the verdict TakeRight or PreferRight against the
\* status.
C19_BetterIsAnyRightVerdict ==
  \A k \in 1 .. Len(obs.better) :
     obs.better[k].result <=>
       \/ FinishedWithin(parser, obs.better[k].cost)
       \/ \E i \in OtherLive(parser, obs.better[k]) :
             StatusVerdict(parser, obs.better[k], i) \in {"TakeRight", "PreferRight"}

\* C19, amended: parser__better_version_exists returns true exactly when the
\* finished tree exists with error_cost <= cost, or some other non-halted
\* version gives the verdict TakeRight, or gives PreferRight and can merge
\* with the version of the call.
C19_BetterIsTakeOrMergeablePrefer ==
  \A k \in 1 .. Len(obs.better) :
     obs.better[k].result <=>
       \/ FinishedWithin(parser, obs.better[k].cost)
       \/ \E i \in OtherLive(parser, obs.better[k]) :
             \/ StatusVerdict(parser, obs.better[k], i) = "TakeRight"
             \/ /\ StatusVerdict(parser, obs.better[k], i) = "PreferRight"
                /\ ts_stack_can_merge(parser, i, obs.better[k].version)

\* C19, its case: the call returned false although a live version that
\* cannot merge is preferred and a halted version would have been taken.
C19_Witness ==
  /\ Len(obs.better) = 1
  /\ ~obs.better[1].result
  /\ \E i \in OtherLive(parser, obs.better[1]) :
        /\ StatusVerdict(parser, obs.better[1], i) = "PreferRight"
        /\ ~ts_stack_can_merge(parser, i, obs.better[1].version)
  /\ \E i \in 0 .. ts_stack_version_count(parser) - 1 :
        /\ ts_stack_is_halted(parser, i)
        /\ StatusVerdict(parser, obs.better[1], i) = "TakeRight"

(***************************************************************************)
(* parser__handle_error next to another version.  In the parses above the  *)
(* call halts its version whenever another version is live, so the stacks  *)
(* here stand for those of any language: version 0 is a path of the parse  *)
(* table (HandlePaths) with one token of the input per state, and an       *)
(* optional version 1 shares the first states of it, has reduced the       *)
(* tokens of the other states to one tree, pushed with a state of          *)
(* OtherStates, and has a cost of its own.  parser__handle_error is then   *)
(* called on either version.                                               *)
(***************************************************************************)
MaxHandleDepth == 3

HandlePaths ==
  {path \in {<<3>>, <<3, 4>>, <<3, 5>>, <<3, 6>>, <<3, 6, 13>>, <<3, 7, 14>>,
             <<3, 8, 15>>, <<3, 8, 15, 20>>, <<3, 10, 17, 22>>} :
     Len(path) <= MaxHandleDepth}

OtherStates == {ERROR_STATE, 5, 6, 7, 13}

OtherCosts == {0, ERROR_COST_PER_SKIPPED_TREE, 2 * ERROR_COST_PER_SKIPPED_TREE}

\* The trees of the k topmost links of the path that ends in node, the
\* deepest first.
RECURSIVE PathTrees(_, _, _)
PathTrees(P, node, k) ==
  IF k = 0 THEN << >>
  ELSE Append(PathTrees(P, P.nodes[node].links[1].node, k - 1), P.nodes[node].links[1].tree)

\* The stack of the path; with shared >= 0 also version 1, which has the
\* first `shared` states of the path and then the state other, and whose cost
\* is larger by cost.
HandleStack(inp, path, shared, other, cost) ==
  IF shared < 0 THEN RecoverTokens(NewParser(TheLanguage), inp, path, 1)
  ELSE
  Value([P1 \in {RecoverTokens(NewParser(TheLanguage), inp, SubSeq(path, 1, shared), 1)} |->
  Value([P2 \in {ts_stack_copy_version(P1, 0)} |->
  Value([P3 \in {RecoverTokens(P2, inp, path, shared + 1)} |->
  Value([children \in {PathTrees(P3, P3.heads[1].node, Len(path) - shared)} |->
  Value([parent \in {ts_tree_make_node(RetainSeq(P3, children), sym_S, children, 0)} |->
  Value([P4 \in {ts_stack_push(parent.p, 1, parent.tree, FALSE, other)} |->
  Value([P5 \in {ts_tree_release(P4, parent.tree)} |->
      [P5 EXCEPT !.nodes[P5.heads[2].node].error_cost = @ + cost]])])])])])])])

HandleInit ==
  /\ build = "zero"
  /\ parser = NewParser(TheLanguage)
  /\ input \in {[i \in 1 .. n |-> CH_a] : n \in 1 .. MaxHandleDepth}
  /\ old_tree = NULL
  /\ halt_on_error = FALSE
  /\ pc = "tokens"
  /\ parse = ParseZero
  /\ advance = AdvanceZero
  /\ obs = [ObsZero EXCEPT !.max_calls = 1, !.calls = 1, !.plan = <<input>>]

\* The stack at the call of parser__handle_error on version v.
HandleEnter ==
  /\ pc = "tokens"
  /\ \E path \in {q \in HandlePaths : Len(q) = Len(input)} :
     \E shared \in -1 .. Len(path) - 1, other \in OtherStates, cost \in OtherCosts :
     \E P \in {HandleStack(input, path, shared, other, cost)} :
     \E v \in 0 .. ts_stack_version_count(P) - 1 :
        /\ ts_stack_top_state(P, v) # ERROR_STATE
        /\ parser' = P
        /\ parse' = [parse EXCEPT !.version = v, !.position = Len(input)]
  /\ pc' = "handle"
  /\ UNCHANGED <<build, call_vars, advance, obs>>

HandleError ==
  /\ pc = "handle"
  /\ parser' = parser__handle_error(parser, parse.version, sym_a)
  /\ pc' = "handled"
  /\ UNCHANGED <<build, call_vars, parse, advance, obs>>

HandleNext == HandleEnter \/ HandleError

SpecHandle == HandleInit /\ [][HandleNext]_vars

(***************************************************************************)
(* parser__handle_error.  The states looked at are those above before the  *)
(* call, and those of a parse in which the next iteration of               *)
(* parser__advance finds no action for the lookahead, breaks nothing down  *)
(* on the top of the stack and is not in ERROR_STATE yet.                  *)
(***************************************************************************)
HandleErrorInParse ==
  /\ pc = "advance"
  /\ parser.fault = ""
  /\ advance.table_entry.actions = << >>
  /\ advance.state # ERROR_STATE
  /\ ~parser__breakdown_top_of_stack(parser, parse.version).did_break_down

HandleErrorPending == pc = "handle" \/ HandleErrorInParse

\* The parser struct at the call of parser__handle_error and at its return.
HandleErrorEntry ==
  IF pc = "handle" THEN parser
  ELSE parser__breakdown_top_of_stack(parser, parse.version).p

HandleErrorReturn ==
  parser__handle_error(HandleErrorEntry, parse.version,
                       IF pc = "handle" THEN sym_a
                       ELSE parser.trees[advance.lookahead].first_leaf.symbol)

\* The stack after the potential reductions, before the ERROR_STATE pushes.
HandleErrorReduced ==
  HandleErrorReductions([p |-> HandleErrorEntry, cur |-> parse.version], parse.version,
                        ts_stack_version_count(HandleErrorEntry))

\* The top nodes of the versions that the potential reductions created.
CreatedNodes ==
  {HandleErrorReduced.heads[i + 1].node :
     i \in ts_stack_version_count(HandleErrorEntry) ..
           ts_stack_version_count(HandleErrorReduced) - 1}

\* Node n is under the top node of version v: a link of the top node leads
\* to n, or to the node of the same state and position that took the links
\* of n (stack_node_add_link).
MergedInto(P, v, n) ==
  \E k \in 1 .. Len(P.nodes[P.heads[v + 1].node].links) :
     LET m == P.nodes[P.heads[v + 1].node].links[k].node
     IN  \/ m = n
         \/ /\ P.nodes[m].state = P.nodes[n].state
            /\ P.nodes[m].position = P.nodes[n].position

\* The call of parser__handle_error halts the version.
HandleErrorHalts ==
  parser__better_version_exists(
    HandleErrorEntry, parse.version, TRUE,
    ts_stack_error_cost(HandleErrorEntry, parse.version) + ERROR_COST_PER_SKIPPED_TREE)

\* C20: if parser__handle_error does not halt version v, then on return the
\* stack has as many versions as on entry, the top state of v is ERROR_STATE,
\* the top position of v is unchanged and every version that the potential
\* reductions created has been merged into v; if it halts v, nothing else on
\* the stack changes.
C20_HandleErrorPushesAndMerges ==
  (HandleErrorPending /\ HandleErrorReturn.fault = "") =>
    LET P == HandleErrorEntry
        R == HandleErrorReturn
        v == parse.version
    IN  IF HandleErrorHalts
        THEN /\ ts_stack_is_halted(R, v)
             /\ R.nodes = P.nodes
             /\ R.heads = [P.heads EXCEPT ![v + 1].is_halted = TRUE]
        ELSE /\ ~ts_stack_is_halted(R, v)
             /\ ts_stack_version_count(R) = ts_stack_version_count(P)
             /\ ts_stack_top_state(R, v) = ERROR_STATE
             /\ ts_stack_top_position(R, v) = ts_stack_top_position(P, v)
             /\ \A n \in CreatedNodes : MergedInto(R, v, n)

\* C20, its case: parser__handle_error is called on a version that is not
\* halted, among several versions, and its potential reductions create
\* versions.
C20_Witness ==
  /\ HandleErrorPending
  /\ HandleErrorReturn.fault = ""
  /\ ~HandleErrorHalts
  /\ ts_stack_version_count(HandleErrorEntry) > 1
  /\ Cardinality(CreatedNodes) > 1

(***************************************************************************)
(* parser__do_potential_reductions, at the first call that                 *)
(* parser__handle_error makes of it.                                       *)
(***************************************************************************)
PotentialPending == HandleErrorPending /\ ~HandleErrorHalts

PotentialCall == parser__do_potential_reductions(HandleErrorEntry, parse.version)

\* The actions of the state for the tokens that are not extra actions.
StateActions(st) ==
  {a \in UNION {{ts_language_actions(parser.language, st, sym)[i] :
                    i \in 1 .. Len(ts_language_actions(parser.language, st, sym))} : sym \in Tokens} :
     ~a.extra}

HasShiftAction(st) == \E a \in StateActions(st) : a.type \in {"Shift", "Recover"}

HasReduction(st) == \E a \in StateActions(st) : a.type = "Reduce" /\ a.child_count > 0

\* C21, as stated: parser__do_potential_reductions returns true exactly when
\* the top state of the version has a shift or recover action that is not
\* extra, for some token.
C21_TrueIffShiftAction ==
  PotentialPending =>
    (PotentialCall.result <=>
       HasShiftAction(ts_stack_top_state(HandleErrorEntry, parse.version)))

\* C21, amended: parser__do_potential_reductions returns false exactly when
\* it performed a reduction and the top state of the version has no shift or
\* recover action that is not extra; it returns true when the state has
\* such an action and also when it performed no reduction.
C21_FalseIffReducedWithoutShift ==
  PotentialPending =>
    (PotentialCall.result <=>
       \/ HasShiftAction(ts_stack_top_state(HandleErrorEntry, parse.version))
       \/ ~HasReduction(ts_stack_top_state(HandleErrorEntry, parse.version)))

\* C21, its case: the call returns true in a state with no shift action and
\* no reduction to perform.
C21_Witness ==
  /\ PotentialPending
  /\ PotentialCall.result
  /\ ~HasShiftAction(ts_stack_top_state(HandleErrorEntry, parse.version))
  /\ PotentialCall.p = HandleErrorEntry

(***************************************************************************)
(* The stacks of parser__reduce.  A pop returns several slices only from   *)
(* a node with several links, which a parse of the language above makes    *)
(* only with more tokens than MaxLen; so the stacks here stand for those   *)
(* of any language.  The version that is reduced has a node of state 4     *)
(* with up to MaxReduceLinks links; each link has a tree of its own (a     *)
(* node over one token) and leads to the node B or to the node B', both   *)
(* of state 3 over the base node.  A token, and an extra over it, may lie  *)
(* on top of that node.  A second version, over B in the state that a      *)
(* reduction to S over B ends in, may exist before the call.               *)
(***************************************************************************)
MaxReduceLinks == 3

\* The tree of a link: its symbol and its dynamic precedence.
LinkKinds == {[symbol |-> 7, precedence |-> 0], [symbol |-> 8, precedence |-> 0],
              [symbol |-> 8, precedence |-> 1]}

\* The links: the first leads to B, the others to B or to B'.
LinkPlans ==
  UNION {{q \in [1 .. n -> [kind : LinkKinds, own : BOOLEAN]] : ~q[1].own} :
           n \in 1 .. MaxReduceLinks}

\* A node over the trees, pushed on version v with the state; size is the
\* number of tokens under it.
PushNodeOver(P, v, symbol, precedence, size, st) ==
  Value([c \in {SkippedLeaves([p |-> P, children |-> << >>], size)} |->
  Value([mk \in {ts_tree_make_node(c.p, symbol, c.children, 0)} |->
  Value([P1 \in {[mk.p EXCEPT !.trees[mk.tree].dynamic_precedence = precedence]} |->
      ts_tree_release(ts_stack_push(P1, v, mk.tree, FALSE, st), mk.tree)])])])

\* Versions 0, 1, 2 are the base node, B and B'; version 3 + i is link i;
\* the versions of the links 2 .. n are then merged into version 3.
RECURSIVE ReduceLinks(_, _, _)
ReduceLinks(P, plan, i) ==
  IF i > Len(plan) THEN P
  ELSE Value([P1 \in {ts_stack_copy_version(P, IF plan[i].own THEN 2 ELSE 1)} |->
       Value([P2 \in {PushNodeOver(P1, 2 + i, plan[i].kind.symbol,
                                   plan[i].kind.precedence, 1, 4)} |->
           ReduceLinks(P2, plan, i + 1)])])

RECURSIVE MergeLinks(_, _)
MergeLinks(P, n) ==
  IF n <= 1 THEN P ELSE MergeLinks(ts_stack_merge(P, 3, 4).p, n - 1)

\* The stack at the call: version 0 is the version to reduce, version 1 the
\* second version if there is one.
ReduceStack(plan, top, extra, second) ==
  Value([P1 \in {PushNodeOver(ts_stack_copy_version(NewParser(TheLanguage), 0), 1, sym_L, 0, 0, 3)} |->
  Value([P2 \in {PushNodeOver(ts_stack_copy_version(P1, 0), 2, sym_L, 0, 0, 3)} |->
  Value([P3 \in {MergeLinks(ReduceLinks(P2, plan, 1), Len(plan))} |->
  Value([P4 \in {IF top
                 THEN Value([leaf \in {ts_tree_make_leaf(P3, sym_b, 0, 1)} |->
                          ts_tree_release(ts_stack_push(leaf.p, 3, leaf.tree, FALSE, 13), leaf.tree)])
                 ELSE P3} |->
  Value([P5 \in {IF extra
                 THEN Value([leaf \in {ts_tree_make_leaf(P4, sym_comment, 0, 1)} |->
                      Value([P \in {[leaf.p EXCEPT !.trees[leaf.tree].extra = TRUE]} |->
                          ts_tree_release(ts_stack_push(P, 3, leaf.tree, FALSE,
                                                        ts_stack_top_state(P, 3)),
                                          leaf.tree)])])
                 ELSE P4} |->
  Value([P6 \in {IF second
                 THEN PushNodeOver(ts_stack_copy_version(P5, 1), 4, sym_S, 0,
                                   ts_stack_top_position(P5, 3), 5)
                 ELSE P5} |->
      ts_stack_remove_version(ts_stack_remove_version(ts_stack_remove_version(P6, 2), 1), 0)
  ])])])])])])

\* The reduce actions: a reduction to S of one to three trees.
ReduceActions ==
  {Reduce(sym_S, count, IF count = 2 THEN 1 ELSE 0, fragile) :
     count \in 1 .. 3, fragile \in BOOLEAN}

\* What can make the parent fragile, one at a time.
ReduceCases ==
  {c \in [action : ReduceActions, ambiguity : BOOLEAN, second : BOOLEAN] :
     Cardinality({x \in {<<1, c.action.fragile>>, <<2, c.ambiguity>>, <<3, c.second>>} : x[2]}) <= 1}

ReduceInit ==
  /\ build = "zero"
  /\ parser = NewParser(TheLanguage)
  /\ input = << >>
  /\ old_tree = NULL
  /\ halt_on_error = FALSE
  /\ pc = "tokens"
  /\ parse = ParseZero
  /\ advance = AdvanceZero
  /\ obs = [ObsZero EXCEPT !.max_calls = 1, !.calls = 1, !.plan = <<input>>]

\* The stack and the action at the call of parser__reduce on version 0.
ReduceEnter ==
  /\ pc = "tokens"
  /\ \E plan \in LinkPlans, top \in BOOLEAN, extra \in BOOLEAN, c \in ReduceCases :
        /\ extra => top
        /\ parser' = [ReduceStack(plan, top, extra, c.second)
                        EXCEPT !.in_ambiguity = c.ambiguity]
        /\ advance' = [advance EXCEPT !.table_entry.actions = <<c.action>>]
  /\ pc' = "reduce"
  /\ UNCHANGED <<build, call_vars, parse, obs>>

ReduceAction ==
  /\ pc = "reduce"
  /\ parser' = parser__reduce(parser, parse.version, advance.table_entry.actions[1]).p
  /\ pc' = "reduced"
  /\ UNCHANGED <<build, call_vars, parse, advance, obs>>

ReduceNext == ReduceEnter \/ ReduceAction

SpecReduce == ReduceInit /\ [][ReduceNext]_vars

(***************************************************************************)
(* parser__reduce.  The states looked at are those before an iteration of  *)
(* parser__advance, and those above before the call; the calls are those   *)
(* of the reduce actions that the iteration executes, each on the stack    *)
(* the call before it left.                                                *)
(***************************************************************************)
\* The calls from action i on: the parser struct at the call, the action,
\* the pop, the stack after the loop over the slices and the result.
RECURSIVE ReduceCallsFrom(_, _, _, _)
ReduceCallsFrom(P, v, actions, i) ==
  IF i > Len(actions) \/ actions[i].type # "Reduce" THEN << >>
  ELSE Value([pop \in {ts_stack_pop_count(P, v, actions[i].child_count)} |->
       Value([pushed \in {ReduceSlices(pop.p, pop.slices, 1, actions[i],
                                       ts_stack_version_count(P))} |->
       Value([r \in {parser__reduce(P, v, actions[i])} |->
           <<[entry |-> P, action |-> actions[i], pop |-> pop, pushed |-> pushed,
              result |-> r.p]>> \o
           (IF r.slices = << >> THEN << >>
            ELSE ReduceCallsFrom(r.p, v, actions, i + 1))])])])

ReduceCalls ==
  IF pc \in {"advance", "reduce"} /\ parser.fault = ""
  THEN ReduceCallsFrom(parser, parse.version, advance.table_entry.actions, 1)
  ELSE << >>

\* The versions of the slices of a pop.
SliceVersions(pop) == {pop.slices[k].version : k \in 1 .. Len(pop.slices)}

\* The link of the parent that the reduce pushed on version sv: the first
\* link from the top whose tree is not an extra (the extras on top of the
\* popped trees are pushed again over the parent).
RECURSIVE ParentLink(_, _)
ParentLink(P, node) ==
  LET link == P.nodes[node].links[1]
  IN  IF link.tree # NULL /\ P.trees[link.tree].extra /\ P.nodes[link.node].links # << >>
      THEN ParentLink(P, link.node)
      ELSE link

\* The condition of parser__reduce for a fragile parent.
ReduceFragile(call) ==
  \/ call.action.fragile
  \/ call.entry.in_ambiguity
  \/ Len(call.pop.slices) > 1
  \/ ts_stack_version_count(call.entry) > 1

MarkedFragile(t) ==
  t.fragile_left /\ t.fragile_right /\ t.parse_state = TS_TREE_STATE_NONE

\* C22: a parent created by parser__reduce is marked fragile (fragile_left,
\* fragile_right, parse_state = TS_TREE_STATE_NONE) exactly when the action
\* is fragile, in_ambiguity is set, the pop returned more than one slice or
\* more than one version existed at entry; otherwise its parse_state is the
\* state that the pop revealed.
C22_ParentFragileIff ==
  \A k \in 1 .. Len(ReduceCalls) :
     LET call == ReduceCalls[k]
         P    == call.pushed
     IN  \A sv \in SliceVersions(call.pop) :
            LET link == ParentLink(P, P.heads[sv + 1].node)
            IN  /\ link.tree # NULL
                /\ P.trees[link.tree].symbol = call.action.symbol
                /\ MarkedFragile(P.trees[link.tree]) <=> ReduceFragile(call)
                /\ ~ReduceFragile(call) =>
                      P.trees[link.tree].parse_state = P.nodes[link.node].state

\* C22, witness: a reduction that is fragile only by the number of versions
\* at entry has pushed a parent that is marked fragile, and in the same
\* parse a reduction on a single version has pushed a parent with the state
\* the pop revealed.
C22_Witness ==
  /\ \E k \in 1 .. Len(ReduceCalls) :
        LET call == ReduceCalls[k]
            P    == call.pushed
        IN  /\ ~call.action.fragile /\ ~call.entry.in_ambiguity
            /\ Len(call.pop.slices) = 1
            /\ ts_stack_version_count(call.entry) > 1
            /\ \A sv \in SliceVersions(call.pop) :
                  MarkedFragile(P.trees[ParentLink(P, P.heads[sv + 1].node).tree])
  /\ \E t \in DOMAIN parser.trees :
        /\ parser.trees[t].symbol = 5
        /\ parser.trees[t].parse_state = 1
        /\ ~parser.trees[t].fragile_left

\* The slices of the pop that carry version sv, and the trees of slice k
\* without the extras at its end.
SlicesOf(call, sv) ==
  {k \in 1 .. Len(call.pop.slices) : call.pop.slices[k].version = sv}

EssentialTrees(call, k) ==
  LET trees == call.pop.slices[k].trees
  IN  SubSeq(trees, 1, EssentialCount(call.pop.p.trees, trees, Len(trees)))

\* The memory after the pop, with the parent that ts_tree_make_node makes
\* of slice k at the address -k.
CandidateTrees(call) ==
  LET P == call.pop.p
      made(k) == ts_tree_make_node(P, call.action.symbol, EssentialTrees(call, k),
                                   call.action.alias_sequence_id)
  IN  [t \in DOMAIN P.trees \cup {-k : k \in 1 .. Len(call.pop.slices)} |->
         IF t \in DOMAIN P.trees THEN P.trees[t]
         ELSE made(-t).p.trees[made(-t).tree]]

\* Slice w is the one parser__select_tree prefers among the slices ks: the
\* parent of w replaces that of every slice before it and is replaced by
\* that of no slice after it.
Preferred(call, ks, w) ==
  \A j \in ks :
     /\ j < w => parser__select_tree(CandidateTrees(call), -j, -w)
     /\ j > w => ~parser__select_tree(CandidateTrees(call), -w, -j)

\* The trees of the links from the node down to, and without, the first
\* link whose tree is not an extra; the deepest first.
RECURSIVE ExtrasOver(_, _)
ExtrasOver(P, node) ==
  LET link == P.nodes[node].links[1]
  IN  IF link.tree # NULL /\ P.trees[link.tree].extra /\ P.nodes[link.node].links # << >>
      THEN Append(ExtrasOver(P, link.node), link.tree)
      ELSE << >>

\* The slice whose trees are the children of the parent pushed on sv.
ChosenSlices(call, sv) ==
  LET P == call.pushed
  IN  {w \in SlicesOf(call, sv) :
         P.trees[ParentLink(P, P.heads[sv + 1].node).tree].children = EssentialTrees(call, w)}

RejectedSlices(call) ==
  {k \in 1 .. Len(call.pop.slices) : k \notin ChosenSlices(call, call.pop.slices[k].version)}

Occurrences(trees, t) == Cardinality({i \in 1 .. Len(trees) : trees[i] = t})

RECURSIVE SumOver(_, _)
SumOver(f, ks) ==
  IF ks = {} THEN 0
  ELSE LET k == CHOOSE x \in ks : TRUE IN f[k] + SumOver(f, ks \ {k})

\* C23: for each distinct version among the slices of the pop exactly one
\* parent is pushed, over the node the pop revealed and under the extras of
\* the chosen slice; its children are the slice that parser__select_tree
\* prefers among the slices of that version; every tree of a rejected slice
\* has lost the reference the pop took for that slice.
C23_OneParentOfPreferredSlice ==
  \A n \in 1 .. Len(ReduceCalls) :
     LET call == ReduceCalls[n]
         P    == call.pushed
         pop  == call.pop
     IN  /\ ts_stack_version_count(P) = ts_stack_version_count(pop.p)
         /\ \A sv \in SliceVersions(pop) :
               LET link == ParentLink(P, P.heads[sv + 1].node)
               IN  /\ link.tree # NULL
                   /\ P.trees[link.tree].symbol = call.action.symbol
                   /\ link.node = pop.p.heads[sv + 1].node
                   /\ Cardinality(ChosenSlices(call, sv)) = 1
                   /\ \A w \in ChosenSlices(call, sv) :
                         /\ Preferred(call, SlicesOf(call, sv), w)
                         /\ EssentialTrees(call, w) \o ExtrasOver(P, P.heads[sv + 1].node)
                              = pop.slices[w].trees
         /\ \A k \in 1 .. Len(pop.slices) : \A i \in 1 .. Len(pop.slices[k].trees) :
               LET t == pop.slices[k].trees[i]
               IN  /\ t \in DOMAIN P.trees
                   /\ P.trees[t].ref_count =
                        pop.p.trees[t].ref_count -
                        SumOver([j \in RejectedSlices(call) |-> Occurrences(pop.slices[j].trees, t)],
                                RejectedSlices(call))

\* C23, witness: a pop has returned three slices or more for two versions,
\* and for one of them the parent has the children of a slice that is not
\* the first of its version.
C23_Witness ==
  \E n \in 1 .. Len(ReduceCalls) :
     LET call == ReduceCalls[n]
     IN  /\ Len(call.pop.slices) > 2
         /\ Cardinality(SliceVersions(call.pop)) = 2
         /\ \E sv \in SliceVersions(call.pop) : \E w \in ChosenSlices(call, sv) :
               /\ \E j \in SlicesOf(call, sv) : j < w
               /\ call.pop.slices[w].trees # EssentialTrees(call, w)

\* The versions that existed at the call are as they were: the same heads
\* at the same indices, on nodes with the same links.
OldVersionsKept(call) ==
  LET count == ts_stack_version_count(call.entry)
  IN  /\ ts_stack_version_count(call.result) >= count
      /\ \A v \in 0 .. count - 1 :
            /\ call.result.heads[v + 1] = call.entry.heads[v + 1]
            /\ call.result.heads[v + 1].node \in DOMAIN call.result.nodes
            /\ call.result.nodes[call.result.heads[v + 1].node]
                 = call.entry.nodes[call.entry.heads[v + 1].node]

\* C24: parser__reduce merges only versions it made: a version that existed
\* at the call is not merged into, merged away, removed or renumbered, even
\* when it could be merged with a version the reduce made.
C24_OldVersionsUntouched ==
  \A n \in 1 .. Len(ReduceCalls) : OldVersionsKept(ReduceCalls[n])

\* C24, witness: after a reduce, a version that existed at the call and was
\* not the one reduced can be merged with a version the reduce made.
C24_Witness ==
  \E n \in 1 .. Len(ReduceCalls) :
     LET call  == ReduceCalls[n]
         count == ts_stack_version_count(call.entry)
     IN  /\ OldVersionsKept(call)
         /\ \E v \in 0 .. count - 1 :
            \E new \in count .. ts_stack_version_count(call.result) - 1 :
               /\ v # parse.version
               /\ ts_stack_can_merge(call.result, v, new)

(***************************************************************************)
(* The table entries of parser__advance.  No entry of TheLanguage has an   *)
(* action after a shift, so the parser is given another language, one of   *)
(* those with an entry of OtherEntries.  The stack is a path of the parse  *)
(* table with one token of the input per state, and parser__advance is     *)
(* entered for the next token: parser__get_lookahead and the table lookup  *)
(* of the language.  The entry replaced is the one of the top state of the *)
(* path and that token, so that the iteration reads it; an entry that      *)
(* begins with a recover action is put in ERROR_STATE, where the parser    *)
(* reads it after parser__handle_error when TheLanguage has no action for  *)
(* the token in the state of the path; the path then has two states or    *)
(* more, so that the reductions parser__handle_error tries first end in    *)
(* states of the table.  An entry with an accept action is that of the end *)
(* of the input.                                                           *)
(***************************************************************************)
MaxEntryDepth == 3

EntryPaths ==
  {path \in {<<4>>, <<3, 4>>, <<3, 6>>, <<3, 6, 13>>, <<3, 4, 13>>} :
     Len(path) <= MaxEntryDepth}

EntryInit ==
  /\ build = "zero"
  /\ parser = ParserZero
  /\ input \in UNION {[1 .. n -> {CH_a, CH_b}] : n \in 1 .. MaxEntryDepth + 1}
  /\ old_tree = NULL
  /\ halt_on_error = FALSE
  /\ pc = "tokens"
  /\ parse = ParseZero
  /\ advance = AdvanceZero
  /\ obs = [ObsZero EXCEPT !.max_calls = 1, !.calls = 1, !.plan = <<input>>]

\* The entry of OtherEntries has an accept action.
HasAccept(k) == \E i \in 1 .. Len(OtherEntries[k]) : OtherEntries[k][i].type = "Accept"

\* The entry of OtherEntries begins with a recover action.
RecoverFirst(k) == OtherEntries[k][1].type = "Recover"

\* parser_set_language, the stack of a path, and the start of
\* parser__advance on it.
EntryEnter ==
  /\ pc = "tokens"
  /\ \E k \in 1 .. Len(OtherEntries), symbol \in Tokens :
     \E path \in {q \in EntryPaths : /\ Len(q) \in {Len(input) - 1, Len(input)}
                                     /\ RecoverFirst(k) => Len(q) > 1} :
     \E st \in {IF RecoverFirst(k) THEN ERROR_STATE ELSE path[Len(path)]} :
     \E P \in {RecoverTokens(parser_set_language(parser, LanguageOf(k, st, symbol)),
                             input, path, 1)} :
     \E c \in {AdvanceEnter(P, input, 0, ReusableNodeZero)} :
        /\ ~c.returned
        /\ c.p.trees[c.lookahead].first_leaf.symbol = symbol
        /\ HasAccept(k) => symbol = ts_builtin_sym_end
        /\ st = ERROR_STATE => c.table_entry.actions = << >>
        /\ parser' = c.p
        /\ parse' = [parse EXCEPT !.position = Len(path), !.reusable_node = c.reusable_node]
        /\ advance' = [state |-> c.state, lookahead |-> c.lookahead,
                       table_entry |-> c.table_entry]
  /\ pc' = "advance"
  /\ UNCHANGED <<build, call_vars, obs>>

EntryNext == EntryEnter \/ AdvanceLoop

SpecEntry == EntryInit /\ [][EntryNext]_vars

(***************************************************************************)
(* One iteration of parser__advance on a table entry with actions.         *)
(***************************************************************************)
EntryPending ==
  pc = "advance" /\ parser.fault = "" /\ advance.table_entry.actions # << >>

\* The locals at the start of the iteration, and at its end.
IterationEntry ==
  [p |-> parser, reusable_node |-> parse.reusable_node, state |-> advance.state,
   lookahead |-> advance.lookahead, table_entry |-> advance.table_entry,
   last_reduction_version |-> STACK_VERSION_NONE, returned |-> FALSE]

IterationReturn == AdvanceIteration(IterationEntry, input, parse.version)

\* The number of reduce actions before the first action of another type.
RECURSIVE LeadingReduces(_, _)
LeadingReduces(actions, i) ==
  IF i > Len(actions) \/ actions[i].type # "Reduce" THEN i - 1
  ELSE LeadingReduces(actions, i + 1)

\* The stack after the reduce actions 1 .. n, each on what the one before
\* it left.
AfterReduces(n) == IF n = 0 THEN parser ELSE ReduceCalls[n].result

\* C25: the reduce actions before the first shift, accept or recover action
\* are executed in table order, then that action and no action after it;
\* when the entry has reduce actions only, the first version of the slices
\* of the last reduce takes the place of v, the lookahead is kept and the
\* table entry is read again in the new top state of v.
C25_ActionsInTableOrder ==
  EntryPending =>
    LET actions == advance.table_entry.actions
        n       == LeadingReduces(actions, 1)
        c       == IterationReturn
        v       == parse.version
    IN  /\ Len(ReduceCalls) = n
        /\ IF n < Len(actions)
           THEN /\ c.returned
                /\ c.p = AdvanceActions([IterationEntry EXCEPT
                                           !.p = AfterReduces(n),
                                           !.table_entry.actions = <<actions[n + 1]>>],
                                        v, 1).p
           ELSE LET last == ReduceCalls[n].pop.slices[1].version
                IN  /\ ~c.returned
                    /\ c.p = ts_stack_renumber_version(AfterReduces(n), last, v)
                    /\ c.p.heads[v + 1].node = AfterReduces(n).heads[last + 1].node
                    /\ c.lookahead = advance.lookahead
                    /\ c.state = ts_stack_top_state(c.p, v)
                    /\ c.table_entry =
                         ts_language_table_entry(c.p.language, c.state,
                                                 c.p.trees[c.lookahead].first_leaf.symbol)

\* C25, witness: the entry has two reduce actions, then a shift, then
\* further actions, and the iteration has returned with the lookahead on
\* top of v.
C25_Witness ==
  /\ EntryPending
  /\ LeadingReduces(advance.table_entry.actions, 1) = 2
  /\ Len(advance.table_entry.actions) > 3
  /\ advance.table_entry.actions[3].type = "Shift"
  /\ IterationReturn.returned
  /\ IterationReturn.p.fault = ""
  /\ ts_stack_version_count(IterationReturn.p) = 3

\* The iteration executes a shift action marked extra.
ShiftExtraPending ==
  /\ EntryPending
  /\ LeadingReduces(advance.table_entry.actions, 1) < Len(advance.table_entry.actions)
  /\ LET action == advance.table_entry.actions[LeadingReduces(advance.table_entry.actions, 1) + 1]
     IN  action.type = "Shift" /\ action.extra

ExtraShiftHasLeaf ==
  ShiftExtraPending =>
    /\ parser.trees[advance.lookahead].children = << >>
    /\ parser.trees[advance.lookahead].symbol = sym_comment

(***************************************************************************)
(* The rounds of parser_parse.                                             *)
(***************************************************************************)
InRound(at) == at \in {"for", "while", "advance", "condense"}

\* A step of the test of the while loop for version v.
WhileTest == pc \in {"for", "while"} /\ parse.version < ts_stack_version_count(parser)

RoundStep ==
  LET v   == parse.version
      pos == ts_stack_top_position(parser, v)
  IN  /\ InRound(pc) /\ InRound(pc') =>
            /\ parse'.last_position >= parse.last_position
            /\ \/ parse'.version = v
               \/ parse'.version = v + 1 /\ pc' = "for" /\ WhileTest
               \/ parse'.version = 0 /\ pc = "condense"
      /\ pc' = "advance" /\ InRound(pc) => parse'.version = v
      /\ WhileTest /\ pc' = "advance" =>
            /\ ~ts_stack_is_halted(parser, v)
            /\ v = 0 => pos <= parse.last_position
            /\ v > 0 => pos < parse.last_position
      /\ WhileTest /\ pc' = "for" =>
            \/ ts_stack_is_halted(parser, v) /\ parse'.last_position = parse.last_position
            \/ pos > parse.last_position /\ parse'.last_position = pos
            \/ v > 0 /\ pos = parse.last_position /\ parse'.last_position = pos

\* C27: in a round the versions are visited in ascending order; version 0
\* is advanced until its top position is beyond last_position or it is
\* halted, a version of a larger index only while its top position is
\* before last_position; last_position never decreases, and it grows when
\* the loop leaves a version 0 that is not halted.
C27_RoundRobinProgress == [][RoundStep]_vars

\* C27, witness: in a later round a version of index above 0 is advanced,
\* behind a version 0 that has moved last_position on in this round.
C27_Witness ==
  /\ pc = "advance"
  /\ parser.fault = ""
  /\ obs.rounds >= 1
  /\ parse.version > 0
  /\ ~ts_stack_is_halted(parser, 0)
  /\ ts_stack_top_position(parser, parse.version) < parse.last_position
  /\ ts_stack_top_position(parser, 0) = parse.last_position

(***************************************************************************)
(* parser__lex.  The states looked at are those at the test of the while   *)
(* loop of parser_parse for a version that is not halted; the call is that *)
(* of parser__lex for the version in its top state, which                  *)
(* parser__get_lookahead makes when it reuses nothing.                     *)
(***************************************************************************)
LexPending ==
  /\ WhileTest
  /\ parser.fault = ""
  /\ ~ts_stack_is_halted(parser, parse.version)

LexState == ts_stack_top_state(parser, parse.version)
LexStart == ts_stack_top_position(parser, parse.version)
LexReturn == parser__lex(parser, input, parse.version, LexState)
LexResult == LexReturn.p.trees[LexReturn.tree]

\* The first call of the external scanner in the call of parser__lex.
FirstScanValid == ts_language_enabled_external_tokens(ExternalLexStates[LexState])
FirstScan ==
  external_scanner_scan(
    external_scanner_deserialize(
      parser__restore_external_scanner(parser.trees,
                                       ts_stack_last_external_token(parser, parse.version))),
    input, LexStart, FirstScanValid)

ScannerFound == LexPending /\ FirstScanValid # << >> /\ FirstScan.ok

\* The result is the token of the first scan.
FirstScanCommitted ==
  /\ LexResult.has_external_tokens
  /\ LexResult.symbol = ExternalSymbolMap[FirstScan.result_symbol + 1]
  /\ LexResult.padding = FirstScan.token_start - LexStart
  /\ LexResult.size = FirstScan.token_end - FirstScan.token_start

\* C28, as stated: outside error mode a token of the external scanner is
\* committed only if its end is beyond the position where the scan started.
C28_CommitsOnlyNonEmptyOutsideErrorMode ==
  ScannerFound /\ LexState # ERROR_STATE =>
    (FirstScanCommitted => FirstScan.token_end > LexStart)

\* C28, amended: a token of the external scanner is committed unless the
\* lexer is in error mode and the end of the token is not beyond the
\* position where the scan started; outside error mode a token of no length
\* is committed as well.
C28_DisregardsEmptyInErrorModeOnly ==
  ScannerFound =>
    /\ FirstScanCommitted <=> ~(LexState = ERROR_STATE /\ FirstScan.token_end <= LexStart)
    /\ ~FirstScanCommitted => ~LexResult.has_external_tokens

\* C28, witness: outside error mode the scanner has found a token of no
\* length, and parser__lex returns it as an external token.
C28_Witness ==
  /\ ScannerFound
  /\ LexState # ERROR_STATE
  /\ FirstScan.token_end = LexStart
  /\ FirstScanCommitted
  /\ LexResult.size = 0

\* The lexer and the locals of parser__lex at the end of its loop.
LexExit == LexLoop(parser.trees, input, LexEnter(parser, parse.version, LexState))

\* C29: the leaf that parser__lex returns has bytes_scanned = the greatest
\* position the lexer has had in the call (in a scan of the external
\* scanner, in lex_fn, in the retry in error mode, in the skipping of
\* characters) - the start position + 1, which is more than the bytes of
\* its padding and its size.
C29_BytesScannedCoversEveryAttempt ==
  LexPending =>
    /\ LexResult.children = << >>
    /\ LexResult.bytes_scanned = LexExit.reached - LexStart + 1
    /\ LexResult.bytes_scanned > LexResult.padding + LexResult.size

\* C29, witness: a scan of the external scanner that found no token has
\* read beyond the end of the token that lex_fn then made.
C29_Witness ==
  /\ LexPending
  /\ FirstScanValid # << >>
  /\ ~FirstScan.ok
  /\ ~LexExit.skipped_error
  /\ FirstScan.current > LexExit.current
  /\ LexResult.bytes_scanned = FirstScan.current - LexStart + 1

(***************************************************************************)
(* Previous trees with marks.  The parses of the language above leave no   *)
(* tree that parser__get_lookahead rejects for its flags alone; so the     *)
(* previous tree of the second parse here carries, on a node with children *)
(* and on the ancestors of the node, one of the marks an edit or a parse   *)
(* of another language leaves: has_changes, the ERROR symbol, fragile_left *)
(* or fragile_right; or the parser is in an ambiguity.                     *)
(***************************************************************************)
MaxCursorLen == 2

CursorInputs == UNION {[1 .. n -> {CH_a, CH_b, CH_hash}] : n \in 1 .. MaxCursorLen}

CursorMarks == {"has_changes", "is_error", "fragile_left", "fragile_right", "in_ambiguity"}

\* The tree t with the mark.
MarkTree(t, mark) ==
  CASE mark = "has_changes"   -> [t EXCEPT !.has_changes = TRUE]
    [] mark = "is_error"      -> [t EXCEPT !.symbol = ts_builtin_sym_error]
    [] mark = "fragile_left"  -> [t EXCEPT !.fragile_left = TRUE]
    [] mark = "fragile_right" -> [t EXCEPT !.fragile_right = TRUE]
    [] OTHER                  -> t

\* The parser with the mark on the node and on its ancestors under root.
MarkPath(P, root, node, mark) ==
  IF mark = "in_ambiguity" THEN [P EXCEPT !.in_ambiguity = TRUE]
  ELSE [P EXCEPT !.trees =
          [t \in DOMAIN P.trees |->
             IF t \in Subtrees(P.trees, {root}, {}) /\ node \in Subtrees(P.trees, {t}, {})
             THEN MarkTree(P.trees[t], mark) ELSE P.trees[t]]]

CursorInit == InitParser({"wrap"}, CursorInputs, 2)

\* The caller calls parser_parse with the tree of its document, which has
\* a mark.
CursorCall ==
  /\ pc = "idle"
  /\ parser.fault = ""
  /\ obs.calls < obs.max_calls
  /\ obs.tree # NULL
  /\ \E mark \in CursorMarks :
     \E node \in {t \in Subtrees(parser.trees, {obs.tree}, {}) :
                    parser.trees[t].children # << >>} :
        parser' = parser__start(MarkPath(parser, obs.tree, node, mark), obs.tree)
  /\ halt_on_error' = FALSE
  /\ old_tree' = obs.tree
  /\ parse' = ParseZero
  /\ advance' = AdvanceZero
  /\ pc' = "for"
  /\ obs' = CallObs
  /\ UNCHANGED <<build, input>>

CursorNext ==
  \/ ParseCall
  \/ CursorCall
  \/ ForLoop
  \/ AdvanceReturn
  \/ AdvanceLoop
  \/ RoundEnd
  \/ Finish
  \/ KeepResult
  \/ SetLanguage
  \/ Destroy

SpecCursor == CursorInit /\ [][CursorNext]_vars

(***************************************************************************)
(* parser__get_lookahead.  The states looked at are those at the test of   *)
(* the while loop of parser_parse that is followed by a call of            *)
(* parser__advance; the call is the one at the start of parser__advance.   *)
(***************************************************************************)
LookaheadPending ==
  /\ LexPending
  /\ ~(LexStart > parse.last_position \/ (parse.version > 0 /\ LexStart = parse.last_position))

\* The cursor at the call: the for loop starts each version with the cursor
\* of the parser.
CursorAtCall == IF pc = "for" THEN parser.reusable_node ELSE parse.reusable_node

LookaheadReturn ==
  GetLookaheadLoop([p |-> parser, state |-> LexState, reusable_node |-> CursorAtCall],
                   input, parse.version)

\* The lookahead returned is the tree the cursor is at.
ReusedFromCursor ==
  /\ LookaheadPending
  /\ LookaheadReturn.p.fault = ""
  /\ LookaheadReturn.lookahead # NULL
  /\ LookaheadReturn.lookahead = LookaheadReturn.reusable_node.tree

\* C30: a subtree that parser__get_lookahead returns from the cursor starts
\* at the top position of the version, has the external-token state of the
\* version, has no changes, is no ERROR node, is not fragile on either
\* side, is a leaf if in_ambiguity is set, and passes
\* parser__can_reuse_first_leaf in the state of the call.
C30_ReusedLookaheadIsReusable ==
  ReusedFromCursor =>
    LET g == LookaheadReturn
        P == g.p
        v == parse.version
        t == P.trees[g.lookahead]
    IN  /\ g.reusable_node.byte_index = ts_stack_top_position(P, v)
        /\ ts_stack_top_position(P, v) = LexStart
        /\ ts_tree_external_token_state_eq(P, g.reusable_node.last_external_token,
                                           ts_stack_last_external_token(P, v))
        /\ ~t.has_changes
        /\ t.symbol # ts_builtin_sym_error
        /\ ~t.fragile_left /\ ~t.fragile_right
        /\ P.in_ambiguity => t.children = << >>
        /\ g.state = ts_stack_top_state(P, v)
        /\ g.table_entry = ts_language_table_entry(P.language, g.state, t.first_leaf.symbol)
        /\ parser__can_reuse_first_leaf(P, g.state, g.lookahead, g.table_entry)

\* C30, witness: at the call the cursor was at a subtree that fails the
\* test of the fragile flags alone, and the lookahead returned is a subtree
\* under it, which the cursor reached by breaking the subtree down.
C30_Witness ==
  /\ ReusedFromCursor
  /\ CursorAtCall.tree # NULL
  /\ CursorAtCall.byte_index = LexStart
  /\ LET t == parser.trees[CursorAtCall.tree]
     IN  /\ t.fragile_left \/ t.fragile_right
         /\ ~t.has_changes /\ t.symbol # ts_builtin_sym_error
         /\ ts_tree_external_token_state_eq(parser, CursorAtCall.last_external_token,
                                            ts_stack_last_external_token(parser, parse.version))
         /\ parser__can_reuse_first_leaf(parser, LexState, CursorAtCall.tree,
               ts_language_table_entry(parser.language, LexState, t.first_leaf.symbol))
  /\ LookaheadReturn.lookahead \in
        Subtrees(parser.trees, {CursorAtCall.tree}, {}) \ {CursorAtCall.tree}


(***************************************************************************)
(* parser__accept.  parser.accepted has the roots of the parse in the      *)
(* order parser__accept compared them; two of them are compared by         *)
(* parser__select_tree in a memory that holds both records, the trees of   *)
(* the second under pointers moved by an offset.                           *)
(***************************************************************************)
RootOffset(l, r) == 1 + Max(DOMAIN l.trees \cup DOMAIN r.trees \cup {0})

BothRoots(l, r) ==
  LET off == RootOffset(l, r)
  IN  [t \in DOMAIN l.trees \cup {x + off : x \in DOMAIN r.trees} |->
         IF t \in DOMAIN l.trees THEN l.trees[t]
         ELSE [r.trees[t - off] EXCEPT
                 !.children = [i \in 1 .. Len(r.trees[t - off].children) |->
                                 r.trees[t - off].children[i] + off]]]

\* parser__select_tree(left, right) on two recorded roots.
SelectRoots(l, r) ==
  parser__select_tree(BothRoots(l, r), l.root, r.root + RootOffset(l, r))

\* The iteration of parser__advance that is about to run.
AdvancePending == pc = "advance" /\ parser.fault = ""

AdvanceStep ==
  AdvanceIteration(
    [p |-> parser, reusable_node |-> parse.reusable_node, state |-> advance.state,
     lookahead |-> advance.lookahead, table_entry |-> advance.table_entry,
     last_reduction_version |-> STACK_VERSION_NONE, returned |-> FALSE],
    input, parse.version)

\* The iteration calls parser__accept (from the accept action or from
\* parser__recover).
AcceptsInStep ==
  /\ AdvancePending
  /\ AdvanceStep.p.fault = ""
  /\ Len(AdvanceStep.p.accepted) > Len(parser.accepted)

\* C31: after any sequence of parser__accept calls in a parse finished_tree
\* is one of the roots accepted; parser__select_tree takes it when it is
\* compared as the new root with any root accepted before it, and takes none
\* of the roots accepted after it over it; and the version that accepts is
\* halted when parser__accept returns.
C31_FinishedIsSelectedRoot ==
  /\ (parser.fault = "" /\ parser.accepted # << >>) =>
        /\ parser.chosen \in 1 .. Len(parser.accepted)
        /\ parser.finished_tree = parser.accepted[parser.chosen].root
        /\ pc \notin {"returned", "idle", "destroyed"} =>
           LET now == parser.trees[parser.finished_tree]
               was == parser.accepted[parser.chosen].trees[parser.finished_tree]
           IN  /\ now.symbol = was.symbol /\ now.children = was.children
               /\ now.error_cost = was.error_cost
               /\ now.dynamic_precedence = was.dynamic_precedence
        /\ \A j \in 1 .. Len(parser.accepted) :
              /\ j < parser.chosen =>
                    SelectRoots(parser.accepted[j], parser.accepted[parser.chosen])
              /\ j > parser.chosen =>
                    ~SelectRoots(parser.accepted[parser.chosen], parser.accepted[j])
  /\ AcceptsInStep =>
        /\ AdvanceStep.returned
        /\ ts_stack_version_count(AdvanceStep.p) > parse.version
        /\ ts_stack_is_halted(AdvanceStep.p, parse.version)

\* C31, witness: two roots have been accepted, the second was compared
\* with the first and not taken, and the version that accepted it is halted.
C31_Witness ==
  /\ parser.fault = ""
  /\ pc = "while"
  /\ Len(parser.accepted) = 2
  /\ parser.chosen = 1
  /\ ~SelectRoots(parser.accepted[1], parser.accepted[2])
  /\ ts_stack_version_count(parser) > parse.version
  /\ ts_stack_is_halted(parser, parse.version)


(***************************************************************************)
(* parser__recover: what follows the loop over the summary.                *)
(***************************************************************************)
RecoverCalled ==
  /\ RecoverPending
  /\ ~RecoverCall.returned
  /\ RecoverCall.p.heads[parse.version + 1].has_summary
  /\ parser__recover(RecoverCall.p, parse.version, RecoverCall.lookahead).fault = ""

RecoverReturn == parser__recover(RecoverCall.p, parse.version, RecoverCall.lookahead)

\* The loop over the summary and the removal of versions that follows it.
RecoverResumed ==
  RecoverSummary(RecoverCall.p, parse.version, RecoverCall.lookahead,
                 ts_stack_get_summary(RecoverCall.p, parse.version))

RecoverCleaned ==
  RecoverCleanup(RecoverResumed.p, ts_stack_version_count(RecoverCall.p))

\* parser__recover accepted the tree of a lone ERROR node, or shifted the
\* lookahead into ERROR_STATE.
FallbackTaken ==
  IF RecoverCall.p.trees[RecoverCall.lookahead].symbol = ts_builtin_sym_end
  THEN Len(RecoverReturn.accepted) > Len(RecoverCall.p.accepted)
  ELSE /\ RecoverReturn.heads[parse.version + 1].node #
            RecoverCall.p.heads[parse.version + 1].node
       /\ ts_stack_top_state(RecoverReturn, parse.version) = ERROR_STATE
       /\ ts_stack_top_position(RecoverReturn, parse.version) =
            ts_stack_top_position(RecoverCall.p, parse.version) +
            ts_tree_total_bytes(RecoverCall.p.trees[RecoverCall.lookahead])

\* C32, as stated: parser__recover accepts the tree of a lone ERROR node, or
\* shifts the lookahead into ERROR_STATE, only if no state of the summary
\* was resumed.
C32_FallbackOnlyIfNoStateWorked ==
  RecoverCalled => (FallbackTaken => ~RecoverResumed.did_recover)

\* C32, amended: parser__recover takes the fallback step (the accept at the
\* end of the input, the shift into ERROR_STATE otherwise) whether a state
\* of the summary was resumed or not; it leaves the step out, and halts the
\* version, exactly when a state was resumed and the stack then has more
\* than MAX_VERSION_COUNT versions.
C32_FallbackUnlessTooManyVersions ==
  RecoverCalled =>
    IF RecoverResumed.did_recover /\
       ts_stack_version_count(RecoverCleaned) > MAX_VERSION_COUNT
    THEN /\ ~FallbackTaken
         /\ ts_stack_is_halted(RecoverReturn, parse.version)
    ELSE FallbackTaken

\* C32, witness: a state of the summary was resumed and the lookahead, not
\* the end of the input, was shifted into ERROR_STATE as well.
C32_Witness ==
  /\ RecoverCalled
  /\ RecoverResumed.did_recover
  /\ RecoverCall.p.trees[RecoverCall.lookahead].symbol # ts_builtin_sym_end
  /\ FallbackTaken

(***************************************************************************)
(* Halted versions.                                                        *)
(***************************************************************************)
HaltedVersions(P) ==
  {v \in 0 .. (ts_stack_version_count(P) - 1) : ts_stack_is_halted(P, v)}

\* A step of the for loop, of the while loop or of parser__advance leaves
\* the head of every halted version as it is: nothing is pushed onto the
\* version or popped from it, and it is not advanced.  The step that ends
\* the round leaves no halted version behind parser__condense_stack.
HaltedStep ==
  /\ (pc \in {"for", "while", "advance"} /\ parser.fault = "" /\ parser'.fault = "") =>
        /\ \A v \in HaltedVersions(parser) :
              /\ v < ts_stack_version_count(parser')
              /\ parser'.heads[v + 1] = parser.heads[v + 1]
        /\ pc' = "advance" => parse'.version \notin HaltedVersions(parser)
  /\ (pc = "condense" /\ parser.fault = "") =>
        HaltedVersions(parser__condense_stack(
          [parser EXCEPT !.reusable_node = parse.reusable_node]).p) = {}

\* C33: once a version is halted the driver neither pushes onto it nor pops
\* from it: parser_parse does not advance it, parser__recover and
\* parser__accept do not push onto it, and its head stays as it is until
\* parser__condense_stack removes the version.
C33_HaltedVersionsUntouched == [][HaltedStep]_vars

\* C33, witness: parser__advance runs on a version while another version of
\* the stack is halted.
C33_Witness ==
  /\ pc = "advance"
  /\ parser.fault = ""
  /\ AdvanceStep.p.fault = ""
  /\ HaltedVersions(parser) # {}
  /\ AdvanceStep.p.heads[parse.version + 1] # parser.heads[parse.version + 1]

(***************************************************************************)
(* The Recover action of parser__advance on a lookahead taken from the     *)
(* previous tree.  In the parses of TheLanguage every node with children   *)
(* that holds a token is fragile, being made in the conflict of state 4,   *)
(* and none is returned from the cursor.  The parses here are those of     *)
(* PlainLanguage, whose nodes are not fragile: a document with an error is *)
(* parsed, and parsed again with the tree of the first parse as previous   *)
(* tree, so that the version meets the error at a node of that tree.       *)
(***************************************************************************)
MaxPlainLen == 3

PlainInputs == UNION {[1 .. n -> {CH_a, CH_b}] : n \in 0 .. MaxPlainLen}

PlainInit == InitParser({"wrap"}, PlainInputs, 2)

\* The caller sets the language of the parser, or unsets it, before a
\* parse.
SetPlainLanguage ==
  /\ pc = "idle"
  /\ parser.fault = ""
  /\ \E language \in {NULL, PlainLanguage} :
        parser' = parser_set_language(parser, language)
  /\ UNCHANGED <<build, call_vars, pc, parse, advance, obs>>

PlainNext ==
  \/ ParseCall
  \/ ForLoop
  \/ AdvanceReturn
  \/ AdvanceLoop
  \/ RoundEnd
  \/ Finish
  \/ KeepResult
  \/ DropTree
  \/ SetPlainLanguage
  \/ Destroy

SpecPlain == PlainInit /\ [][PlainNext]_vars

\* The parses of PlainLanguage over a previous tree with a mark (CursorCall).
\* The documents are the short ones and one of two statements, whose tree
\* has a statement that follows another.
TwoStatements == <<CH_a, CH_b, CH_a, CH_b>>

PlainCursorInit == InitParser({"wrap"}, PlainInputs \cup {TwoStatements}, 2)

PlainCursorNext ==
  \/ ParseCall
  \/ CursorCall
  \/ ForLoop
  \/ AdvanceReturn
  \/ AdvanceLoop
  \/ RoundEnd
  \/ Finish
  \/ KeepResult
  \/ SetPlainLanguage
  \/ Destroy

SpecPlainCursor == PlainCursorInit /\ [][PlainCursorNext]_vars

\* The lookahead of the recover action has children and comes from the
\* cursor.
InteriorRecover ==
  /\ RecoverPending
  /\ parser.trees[advance.lookahead].children # << >>
  /\ advance.lookahead = parse.reusable_node.tree

ParseStep == ForLoop \/ AdvanceReturn \/ AdvanceLoop \/ RoundEnd \/ Finish

StepEnabled == Running /\ parser.fault = ""

FairSteps == []<>(~StepEnabled) \/ []<><<ParseStep>>_vars

\* The parses of SpecParse and of SpecReparse, with the fairness.
SpecTerminates == (InitParse \/ InitReparse) /\ [][Next]_vars /\ FairSteps

\* The iteration of the loop of parser__advance returns or changes the
\* parser or a local.
IterationAdvances ==
  AdvancePending =>
    \/ AdvanceStep.returned
    \/ AdvanceStep.p # parser
    \/ AdvanceStep.reusable_node # parse.reusable_node
    \/ <<AdvanceStep.state, AdvanceStep.lookahead, AdvanceStep.table_entry>>
         # <<advance.state, advance.lookahead, advance.table_entry>>

\* C2: a call of parser_parse on a parser that has a language, for any
\* input, comes to an end: no iteration of the loop of parser__advance
\* leaves everything as it was, the round loop of parser_parse and the loop
\* of parser__advance are left, and the call returns a tree.
C2_ParseTerminates ==
  /\ []IterationAdvances
  /\ (Running /\ parser.language # NULL) ~> (pc = "returned" /\ obs.result # NULL)

\* C2, witness: a call has returned a tree for an input with a character
\* that is in no token, after more than one round and an error.
C2_Witness ==
  /\ pc = "returned"
  /\ obs.result # NULL
  /\ \E i \in 1 .. Len(input) : input[i] = CH_other
  /\ Len(input) > 1
  /\ obs.rounds > 1
  /\ parser.trees[obs.result].error_cost > 0

\* Some version of the stack is not halted.
SomeLiveVersion(P) ==
  \E v \in 0 .. (ts_stack_version_count(P) - 1) : ~ts_stack_is_halted(P, v)

\* C35: while parser_parse runs without a failed assertion, a finished tree
\* or a version that is not halted exists, so the round loop is left with
\* finished_tree non-NULL and parser_parse returns a non-NULL tree.
C35_LoopLeavesFinishedTree ==
  /\ (Running /\ parser.fault = "") =>
        (parser.finished_tree # NULL \/ SomeLiveVersion(parser))
  /\ (pc = "finish" /\ parser.fault = "") => parser.finished_tree # NULL
  /\ pc = "returned" => obs.result # NULL

\* C35 witness: the round loop is left after error recovery with every
\* version removed from the stack and a finished tree that has errors.
C35_Witness ==
  /\ pc = "finish"
  /\ parser.fault = ""
  /\ ts_stack_version_count(parser) = 0
  /\ parser.finished_tree # NULL
  /\ parser.trees[parser.finished_tree].error_cost > 0

\* C36: no call of parser__accept made while parser_parse runs fails one of
\* its two assertions: the lookahead is the end of the input and every slice
\* popped by ts_stack_pop_all gives a root.
C36_AcceptAssertionsHold ==
  parser.fault \notin {"assert(lookahead->symbol == ts_builtin_sym_end)",
                       "assert(root && root->ref_count > 0)"}

\* C36, witness: parser__accept is called for a version that has an extra
\* tree on top of its stack, so that the slice has the root, that tree and
\* the end of the input; a root is found and becomes the finished tree.
C36_Witness ==
  /\ AcceptsInStep
  /\ LET top == parser.nodes[parser.heads[parse.version + 1].node]
     IN  /\ top.links # << >>
         /\ top.links[1].tree # NULL
         /\ parser.trees[top.links[1].tree].extra
  /\ AdvanceStep.p.finished_tree # NULL
  /\ ts_stack_is_halted(AdvanceStep.p, parse.version)

\* The bytes of the trees.
RECURSIVE TotalBytesOf(_, _)
TotalBytesOf(T, trees) ==
  IF trees = << >> THEN 0
  ELSE ts_tree_total_bytes(T[Head(trees)]) + TotalBytesOf(T, Tail(trees))

\* C37: parser__reduce leaves every version it pushes on at the position
\* that the reduced version had before the pop, after the loop over the
\* slices and after the merges: the parent has the bytes of the popped
\* trees without the extras at their end, and those extras lie over it.
C37_ReduceKeepsPosition ==
  \A n \in 1 .. Len(ReduceCalls) :
     LET call  == ReduceCalls[n]
         P     == call.pushed
         pop   == call.pop
         was   == ts_stack_top_position(call.entry, parse.version)
         count == ts_stack_version_count(call.entry)
     IN  /\ \A sv \in SliceVersions(pop) :
               LET top  == P.heads[sv + 1].node
                   link == ParentLink(P, top)
               IN  /\ ts_stack_top_position(P, sv) = was
                   /\ link.tree # NULL
                   /\ P.nodes[link.node].position
                        + ts_tree_total_bytes(P.trees[link.tree])
                        + TotalBytesOf(P.trees, ExtrasOver(P, top)) = was
                   /\ ts_tree_total_bytes(P.trees[link.tree])
                        = TotalBytesOf(P.trees, P.trees[link.tree].children)
         /\ \A v \in count .. ts_stack_version_count(call.result) - 1 :
               ts_stack_top_position(call.result, v) = was

\* C37 witness: a reduce of trees that are not empty, with an extra that is
\* not empty on top of them, at a position that is not the start.
C37_Witness ==
  \E n \in 1 .. Len(ReduceCalls) :
     LET call == ReduceCalls[n]
         P    == call.pushed
     IN  /\ call.action.child_count > 0
         /\ \E sv \in SliceVersions(call.pop) :
               LET top  == P.heads[sv + 1].node
                   link == ParentLink(P, top)
               IN  /\ TotalBytesOf(P.trees, ExtrasOver(P, top)) > 0
                   /\ link.tree # NULL
                   /\ ts_tree_total_bytes(P.trees[link.tree]) > 0
                   /\ ts_stack_top_position(P, sv)
                        = ts_stack_top_position(call.entry, parse.version)

\* The verdict seen from the other side.
MirrorVerdict(cmp) ==
  CASE cmp = "TakeLeft" -> "TakeRight"
    [] cmp = "TakeRight" -> "TakeLeft"
    [] cmp = "PreferLeft" -> "PreferRight"
    [] cmp = "PreferRight" -> "PreferLeft"
    [] OTHER -> cmp

\* C38: parser__compare_versions is antisymmetric: for all statuses a and b
\* compare(a, b) is TakeLeft iff compare(b, a) is TakeRight, PreferLeft iff
\* compare(b, a) is PreferRight, and None iff compare(b, a) is None.
C38_CompareAntisymmetric ==
  \A k \in 1 .. Len(obs.compare) :
     LET ab == obs.compare[k].result
         ba == parser__compare_versions(obs.compare[k].b, obs.compare[k].a)
     IN  /\ ab = "TakeLeft" <=> ba = "TakeRight"
         /\ ab = "PreferLeft" <=> ba = "PreferRight"
         /\ ab = "None" <=> ba = "None"
         /\ ba = MirrorVerdict(ab)

\* C38 witness: two statuses that are both not in error, whose product
\* does not fit an unsigned: a is cheaper and only preferred, and b against
\* a gives the mirrored verdict.
C38_Witness ==
  \E k \in 1 .. Len(obs.compare) :
     LET a == obs.compare[k].a
         b == obs.compare[k].b
     IN  /\ a.cost < b.cost
         /\ a.is_in_error = b.is_in_error
         /\ a.push_count # b.push_count
         /\ ~ProductFits(a, b)
         /\ obs.compare[k].result = "PreferLeft"
         /\ parser__compare_versions(b, a) = "PreferRight"

====
